---- MODULE Spec2Model ----
(***************************************************************************)
(* Model of the modul rendering layer: the sequence compiler and runner    *)
(* (crates/modul_render/src/sequence.rs), the basic operations              *)
(* (sequence/basic.rs) and the part of the render target that the runner   *)
(* drives: the resolve and clear flags and pass creation                    *)
(* (render_target.rs).                                                      *)
(***************************************************************************)
EXTENDS Integers, Sequences, FiniteSets, TLC

\* ------------------------------------------------------------------ bounds

\* Builders added to SequenceBuilders over the whole Init schedule.
MaxBuilders == 3
\* Sequences stored in Assets<Sequence>.
MaxSeqs == 2
\* Length of the RunningSequenceQueue.
MaxQueue == 2
\* Configuring calls made on one render target.
MaxCalls == 5
\* Pipelines in the cache of one RenderPipelineManager.
MaxPipelines == 3
\* AssetIds handed out by one Assets arena.
MaxAssets == 2
\* The width binsearch's i32 is scaled down to, so that start + end can
\* leave the type within the ranges searched.
IntBits == 4

\* ----------------------------------------------------------------- helpers

Range(s) == {s[i] : i \in DOMAIN s}

SeqsUpTo(S, n) == UNION {[1..k -> S] : k \in 0..n}

\* All enumerations of the finite set S without repetition.
Enumerations(S) ==
    {s \in [1..Cardinality(S) -> S] : \A i, j \in DOMAIN s : s[i] = s[j] => i = j}

\* ------------------------------------------------------------ render targets

\* The render targets of the world, named by their RenderTargetSource.
Handles == {"A", "B"}

\* A render target as the runner sees it: the four one-shot flags and which
\* views it currently holds.
RenderTargetOf(color, multisampled, depth_stencil) ==
    [ resolve_scheduled       |-> FALSE,
      clear_color_scheduled   |-> FALSE,
      clear_depth_scheduled   |-> FALSE,
      clear_stencil_scheduled |-> FALSE,
      color_view              |-> color,
      multisampled_view       |-> multisampled,
      depth_stencil_view      |-> depth_stencil ]

\* RenderTargetSource::get_mut: the target of the entity as an option,
\* <<t>> or <<>>.
get_mut(w, h) == IF h \in DOMAIN w THEN <<w[h]>> ELSE <<>>

schedule_resolve(t) == [t EXCEPT !.resolve_scheduled = TRUE]

schedule_clear_color(t) == [t EXCEPT !.clear_color_scheduled = TRUE]

unschedule_resolve(t) == [t EXCEPT !.resolve_scheduled = FALSE]

clearing(t) ==
    <<t.clear_color_scheduled, t.clear_depth_scheduled, t.clear_stencil_scheduled>>

pass_created_keeps_color(t) ==
    [t EXCEPT !.clear_depth_scheduled = FALSE,
              !.clear_stencil_scheduled = FALSE]

pass_created(t) ==
    [t EXCEPT !.clear_color_scheduled = FALSE,
              !.clear_depth_scheduled = FALSE,
              !.clear_stencil_scheduled = FALSE]

\* create_pass: the render pass begun on the encoder as an option, <<pass>>,
\* or <<>> when the target has neither a color view nor a depth/stencil view.
create_pass_result(h, t, resolve) ==
    IF ~t.color_view /\ ~t.depth_stencil_view
    THEN <<>>
    ELSE << [ target          |-> h,
           color           |-> t.color_view,
           view            |-> IF ~t.color_view THEN "none"
                               ELSE IF t.multisampled_view THEN "multisampled"
                               ELSE "color",
           resolve_target  |-> t.color_view /\ t.multisampled_view /\ resolve,
           clear_color     |-> t.color_view /\ clearing(t)[1],
           depth_stencil   |-> t.depth_stencil_view,
           clear_depth     |-> t.depth_stencil_view /\ clearing(t)[2],
           clear_stencil   |-> t.depth_stencil_view /\ clearing(t)[3] ] >>

\* create_pass: its effect on the target (the clear flags are consumed).
create_pass_target(t) == pass_created(t)

begin_ending_pass_keeps_resolve(h, t) ==
    << create_pass_target(t), create_pass_result(h, t, t.resolve_scheduled) >>

begin_resolving_pass_unschedules(h, t) ==
    << unschedule_resolve(create_pass_target(t)), create_pass_result(h, t, TRUE) >>

\* begin_ending_pass: <<target after the call, the pass as an option>>.
begin_ending_pass(h, t) ==
    << unschedule_resolve(create_pass_target(t)),
       create_pass_result(h, t, t.resolve_scheduled) >>

\* begin_resolving_pass
begin_resolving_pass(h, t) ==
    << create_pass_target(t), create_pass_result(h, t, TRUE) >>

\* begin_non_resolving_pass
begin_non_resolving_pass(h, t) ==
    << create_pass_target(t), create_pass_result(h, t, FALSE) >>

\* ------------------------------------------------- operations and builders

\* The operation builders a program adds to its sequences.  EmptyPass is the
\* builder of sequence/basic.rs; DrawPass and the two sampling builders are
\* user operations written against the OperationBuilder trait: DrawPass
\* draws to each of its targets with begin_ending_pass, Sample reads its
\* target and SampleTwice names its target twice in reading().
EmptyPass(h) == [op |-> "EmptyPass", targets |-> <<h>>]

DrawPass(hs) == [op |-> "DrawPass", targets |-> hs]

Sample(h) == [op |-> "Sample", targets |-> <<h>>]

SampleTwice(h) == [op |-> "SampleTwice", targets |-> <<h>>]

Builders == {EmptyPass("A"), DrawPass(<<"A", "B">>), Sample("A"), SampleTwice("A")}

\* OperationBuilder::reading
reading(b) ==
    CASE b.op = "Sample"      -> b.targets
      [] b.op = "SampleTwice" -> b.targets \o b.targets
      [] OTHER                -> <<>>

\* OperationBuilder::writing
writing(b) ==
    CASE b.op = "EmptyPass" -> b.targets
      [] b.op = "DrawPass"  -> b.targets
      [] OTHER              -> <<>>

\* OperationBuilder::finish: the operation keeps the builder's fields.
finish(b) == b

\* SequenceOperation
NoOperation == [op |-> "-", targets |-> <<>>]

Run(o) == [t |-> "Run", op |-> o, target |-> "-"]

ResolveNext(h) == [t |-> "ResolveNext", op |-> NoOperation, target |-> h]

\* ------------------------------------------------------------ compilation

\* The state of the compilation loop of Sequence::run.
CompileState(needs, ops) == [needs_resolving |-> needs, operations |-> ops]

\* Mutant of ReadStep: the handle is not removed from needs_resolving.
ReadStepKeepsPending(st, r) ==
    IF r \in st.needs_resolving
    THEN CompileState(st.needs_resolving,
                      Append(st.operations, ResolveNext(r)))
    ELSE st

\* Mutant of ReadStep: the resolve is emitted without the contains check.
ReadStepUnchecked(st, r) ==
    CompileState(st.needs_resolving \ {r}, Append(st.operations, ResolveNext(r)))

\* One iteration of `for reading in builder.reading()`.
ReadStep(st, r) ==
    IF r \in st.needs_resolving
    THEN CompileState(st.needs_resolving \ {r},
                      Append(st.operations, ResolveNext(r)))
    ELSE st

RECURSIVE ReadLoop(_, _)
ReadLoop(st, rs) ==
    IF rs = <<>> THEN st ELSE ReadLoop(ReadStep(st, Head(rs)), Tail(rs))

\* `for writing in builder.writing() { needs_resolving.insert(writing) }`
WriteLoop(st, ws) == CompileState(st.needs_resolving \cup Range(ws), st.operations)

\* Mutant of BuilderStep: the Run step is pushed before the builder's reads
\* are looked at.
BuilderStepRunFirst(st, b) ==
    LET afterRun    == CompileState(st.needs_resolving,
                                    Append(st.operations, Run(finish(b))))
        afterReads  == ReadLoop(afterRun, reading(b))
    IN  WriteLoop(afterReads, writing(b))

\* The body of `for builder in builders`.
BuilderStep(st, b) ==
    LET afterReads  == ReadLoop(st, reading(b))
        afterWrites == WriteLoop(afterReads, writing(b))
    IN  CompileState(afterWrites.needs_resolving,
                     Append(afterWrites.operations, Run(finish(b))))

RECURSIVE BuilderLoop(_, _)
BuilderLoop(st, bs) ==
    IF bs = <<>> THEN st ELSE BuilderLoop(BuilderStep(st, Head(bs)), Tail(bs))

\* Mutant of TrailingLoop: the loop after the builders is missing.
TrailingLoopOmitted(ops, order) == ops

\* Mutant of TrailingLoop: the trailing resolves are put in front of the plan.
TrailingLoopInFront(ops, order) ==
    [i \in 1..Len(order) |-> ResolveNext(order[i])] \o ops

\* `for resolve in needs_resolving`, the set being iterated in `order`.
TrailingLoop(ops, order) ==
    ops \o [i \in 1..Len(order) |-> ResolveNext(order[i])]

\* The iteration orders a hashbrown::HashSet holding S can have: the default
\* hasher is seeded per set, so every enumeration of S is possible.
IterationOrders(S) == Enumerations(S)

\* The pending set after the builder loop.
PendingAfter(bs) == BuilderLoop(CompileState({}, <<>>), bs).needs_resolving

\* The compiled operations of a builder list under one iteration order.
Compile(bs, order) ==
    TrailingLoop(BuilderLoop(CompileState({}, <<>>), bs).operations, order)

\* ---------------------------------------------------------------- running

\* EmptyPass::run, and each draw of a DrawPass: begin_ending_pass on the
\* target if the entity has one.  st is [world, passes].
DrawTo(st, h) ==
    IF get_mut(st.world, h) = <<>>
    THEN st
    ELSE LET r == begin_ending_pass(h, st.world[h])
         IN  [ world  |-> [st.world EXCEPT ![h] = r[1]],
               passes |-> st.passes \o r[2] ]

RECURSIVE DrawLoop(_, _)
DrawLoop(st, hs) ==
    IF hs = <<>> THEN st ELSE DrawLoop(DrawTo(st, Head(hs)), Tail(hs))

\* Operation::run: the world after the operation and the passes it recorded.
RunOperation(o, w) ==
    CASE o.op = "EmptyPass" -> DrawTo([world |-> w, passes |-> <<>>], o.targets[1])
      [] o.op = "DrawPass"  -> DrawLoop([world |-> w, passes |-> <<>>], o.targets)
      [] OTHER              -> [world |-> w, passes |-> <<>>]

\* The ResolveNext arm of the run loop.
RunResolveNext(h, w) ==
    IF get_mut(w, h) = <<>> THEN w
    ELSE [w EXCEPT ![h] = schedule_resolve(w[h])]

\* ------------------------------------------- render target configuration

\* Option<T>: None is <<>>, Some(x) is <<x>>.
None == <<>>

Some(x) == <<x>>

\* RenderTargetColorConfig (usages are constant in the programs modelled).
RenderTargetColorConfig(multisample_config, clear_color, format_override) ==
    [ multisample_config |-> multisample_config,
      clear_color        |-> clear_color,
      format_override    |-> format_override ]

\* RenderTargetDepthStencilConfig
RenderTargetDepthStencilConfig(clear_depth, clear_stencil, format) ==
    [ clear_depth |-> clear_depth, clear_stencil |-> clear_stencil, format |-> format ]

\* OffscreenRenderTargetConfig and SurfaceRenderTargetConfig in one shape: an
\* offscreen config has no present modes ("-", None), a surface config has
\* no size ("-") and always a color config.
TargetConfig(size, color_config, depth_stencil_config, present_mode, backup_present_mode) ==
    [ size                 |-> size,
      color_config         |-> color_config,
      depth_stencil_config |-> depth_stencil_config,
      present_mode         |-> present_mode,
      backup_present_mode  |-> backup_present_mode ]

OffscreenRenderTargetConfig(size, color_config, depth_stencil_config) ==
    TargetConfig(size, color_config, depth_stencil_config, "-", None)

SurfaceRenderTargetConfig(color_config, depth_stencil_config, present_mode, backup_present_mode) ==
    TargetConfig("-", Some(color_config), depth_stencil_config, present_mode,
                 backup_present_mode)

\* The values the programs modelled use.
Sizes == {"4x4", "8x8"}

ClearColors == {"RED"}

ClearDepths == {"0.5"}

ClearStencils == {"7"}

PresentModes == {"Fifo", "Mailbox"}

BackupPresentModes == {Some("Fifo")}

\* The SurfaceFormat resource: the preferred format of the surface.
PreferredFormat == "Bgra8UnormSrgb"

\* SurfaceCapabilities::present_modes of the surface modelled.
SupportedPresentModes == {"Fifo"}

SurfaceErrors == {"Timeout", "Outdated", "Lost", "OutOfMemory"}

ColorConfigs ==
    { RenderTargetColorConfig(None, "BLACK", None),
      RenderTargetColorConfig(Some("4"), "BLACK", None) }

DepthStencilConfigs ==
    { RenderTargetDepthStencilConfig("1.0", "0", "Depth24PlusStencil8") }

\* The color configs that get scheduled: those above and one that differs
\* from the multisampled one in its format_override alone.
ScheduledColorConfigs ==
    ColorConfigs \cup {RenderTargetColorConfig(Some("4"), "BLACK", Some("Rgba16Float"))}

OffscreenConfigs ==
    { OffscreenRenderTargetConfig("4x4", c, d) :
        c \in {None} \cup {Some(x) : x \in ColorConfigs},
        d \in {None} \cup {Some(x) : x \in DepthStencilConfigs} }

SurfaceConfigs ==
    { SurfaceRenderTargetConfig(c, d, m, None) :
        c \in ColorConfigs,
        d \in {None} \cup {Some(x) : x \in DepthStencilConfigs},
        m \in {"AutoVsync", "Mailbox"} }

\* A texture with its view, by what it was created from.
Texture(size, format, sample_count) ==
    [ size |-> size, format |-> format, sample_count |-> sample_count ]

\* OffscreenRenderTarget and SurfaceRenderTarget in one shape: an offscreen
\* target keeps the surface fields at their initial values.
TargetNew(kind, config) ==
    [ kind                    |-> kind,
      current_config          |-> None,
      scheduled_config        |-> Some(config),
      size                    |-> "0x0",
      surface_capabilities    |-> None,
      preferred_format        |-> None,
      color_texture           |-> None,
      multisampled_texture    |-> None,
      depth_stencil_texture   |-> None,
      resized                 |-> FALSE,
      resolve_scheduled       |-> FALSE,
      clear_color_scheduled   |-> FALSE,
      clear_depth_scheduled   |-> FALSE,
      clear_stencil_scheduled |-> FALSE ]

OffscreenRenderTarget_configured(config) ==
    [TargetNew("Offscreen", config) EXCEPT !.current_config = Some(config),
                                           !.scheduled_config = None]

\* OffscreenRenderTarget::new
OffscreenRenderTarget_new(config) == TargetNew("Offscreen", config)

\* SurfaceRenderTarget::new
SurfaceRenderTarget_new(config) == TargetNew("Surface", config)

\* ------------------------------------------------------------- accessors

\* RenderTargetImpl::size
size(t) ==
    IF t.kind = "Surface" THEN t.size
    ELSE IF t.current_config # None THEN t.current_config[1].size
    ELSE t.scheduled_config[1].size

\* RenderTargetImpl::texture
texture(t) == t.color_texture

\* RenderTargetImpl::texture_view: the offscreen target hands out the view of
\* its multisampled texture, the surface target that of its frame.
texture_view(t) ==
    IF t.kind = "Offscreen" THEN t.multisampled_texture ELSE t.color_texture

\* RenderTargetImpl::multisampled_view
multisampled_view(t) == t.multisampled_texture

\* RenderTargetImpl::depth_stencil_view
depth_stencil_view(t) == t.depth_stencil_texture

\* RenderTargetImpl::current_color_config
current_color_config(t) ==
    IF t.current_config = None THEN None ELSE t.current_config[1].color_config

\* RenderTargetImpl::scheduled_color_config
scheduled_color_config(t) ==
    IF t.scheduled_config = None THEN None ELSE t.scheduled_config[1].color_config

\* RenderTargetImpl::current_depth_stencil_config
current_depth_stencil_config(t) ==
    IF t.current_config = None THEN None
    ELSE t.current_config[1].depth_stencil_config

\* RenderTarget::scheduled_depth_stencil_config: the blanket impl forwards
\* to current_depth_stencil_config.
scheduled_depth_stencil_config(t) == current_depth_stencil_config(t)

\* The flags and views of a target, as create_pass reads them.
AsRenderTarget(t) ==
    [ resolve_scheduled       |-> t.resolve_scheduled,
      clear_color_scheduled   |-> t.clear_color_scheduled,
      clear_depth_scheduled   |-> t.clear_depth_scheduled,
      clear_stencil_scheduled |-> t.clear_stencil_scheduled,
      color_view              |-> texture_view(t) # None,
      multisampled_view       |-> multisampled_view(t) # None,
      depth_stencil_view      |-> depth_stencil_view(t) # None ]

\* ------------------------------------------------------ scheduling changes

schedule_clear_depth(t) == [t EXCEPT !.clear_depth_scheduled = TRUE]

schedule_clear_stencil(t) == [t EXCEPT !.clear_stencil_scheduled = TRUE]

\* scheduled_config_mut aborts with "no scheduled or current config" when the
\* target has neither.
NoConfig(t) == t.scheduled_config = None /\ t.current_config = None

\* scheduled_config_mut: get_or_insert_with a clone of the current config.
scheduled_config_mut(t) ==
    IF t.scheduled_config # None THEN t
    ELSE [t EXCEPT !.scheduled_config = t.current_config]

\* OffscreenRenderTarget::resize
resize(t, s) ==
    [scheduled_config_mut(t) EXCEPT !.scheduled_config[1].size = s]

set_clear_color_immediate(t, color) ==
    LET u == scheduled_config_mut(t)
    IN  IF u.scheduled_config[1].color_config = None THEN u
        ELSE [u EXCEPT !.scheduled_config[1].color_config[1].clear_color = color,
                       !.current_config = u.scheduled_config]

\* RenderTarget::set_clear_color
set_clear_color(t, color) ==
    LET u == scheduled_config_mut(t)
    IN  IF u.scheduled_config[1].color_config = None THEN u
        ELSE [u EXCEPT !.scheduled_config[1].color_config[1].clear_color = color]

\* RenderTarget::set_clear_depth
set_clear_depth(t, depth) ==
    LET u == scheduled_config_mut(t)
    IN  IF u.scheduled_config[1].depth_stencil_config = None THEN u
        ELSE [u EXCEPT
                !.scheduled_config[1].depth_stencil_config[1].clear_depth = depth]

\* RenderTarget::set_clear_stencil
set_clear_stencil(t, stencil) ==
    LET u == scheduled_config_mut(t)
    IN  IF u.scheduled_config[1].depth_stencil_config = None THEN u
        ELSE [u EXCEPT
                !.scheduled_config[1].depth_stencil_config[1].clear_stencil = stencil]

\* RenderTargetImpl::set_scheduled_color_config
set_scheduled_color_config(t, config) ==
    [scheduled_config_mut(t) EXCEPT !.scheduled_config[1].color_config = Some(config)]

\* RenderTargetImpl::set_scheduled_depth_stencil_config
set_scheduled_depth_stencil_config(t, config) ==
    [scheduled_config_mut(t) EXCEPT
        !.scheduled_config[1].depth_stencil_config = Some(config)]

\* OffscreenRenderTarget::remove_color
remove_color(t) ==
    IF t.scheduled_config = None THEN t
    ELSE [t EXCEPT !.scheduled_config[1].color_config = None]

\* OffscreenRenderTarget::remove_depth_stencil and
\* SurfaceRenderTarget::remove_depth_stencil
remove_depth_stencil(t) ==
    IF t.scheduled_config = None THEN t
    ELSE [t EXCEPT !.scheduled_config[1].depth_stencil_config = None]

\* SurfaceRenderTarget::set_present_mode
set_present_mode(t, present_mode) ==
    [scheduled_config_mut(t) EXCEPT !.scheduled_config[1].present_mode = present_mode]

\* SurfaceRenderTarget::set_backup_present_mode
set_backup_present_mode(t, backup_present_mode) ==
    [scheduled_config_mut(t) EXCEPT
        !.scheduled_config[1].backup_present_mode = backup_present_mode]

\* SurfaceRenderTarget::init
init(t, preferred_surface_format, capabilities) ==
    [t EXCEPT !.preferred_format = Some(preferred_surface_format),
              !.surface_capabilities = Some(capabilities)]

\* SurfaceRenderTarget::set_size
set_size(t, s) ==
    IF s # t.size THEN [t EXCEPT !.size = s, !.resized = TRUE] ELSE t

\* SurfaceRenderTarget::present: the frame is taken and presented.
present(t) == [t EXCEPT !.color_texture = None]

\* ----------------------------------------------------------------- passes

\* The one render target of the lifecycle model, as a pass names it.
Target == "T"

\* The kinds of pass: begin_ending_pass, begin_resolving_pass and
\* begin_non_resolving_pass.
PassKinds == {"ending", "resolving", "non_resolving"}

\* The flags of v written back to the target t.
WithFlags(t, v) ==
    [t EXCEPT !.resolve_scheduled       = v.resolve_scheduled,
              !.clear_color_scheduled   = v.clear_color_scheduled,
              !.clear_depth_scheduled   = v.clear_depth_scheduled,
              !.clear_stencil_scheduled = v.clear_stencil_scheduled]

\* begin_*_pass on the flags and views of t: <<flags after, pass option>>.
BeginOn(t, kind) ==
    CASE kind = "ending"    -> begin_ending_pass(Target, AsRenderTarget(t))
      [] kind = "resolving" -> begin_resolving_pass(Target, AsRenderTarget(t))
      [] OTHER              -> begin_non_resolving_pass(Target, AsRenderTarget(t))

\* create_pass aborts with "texture but no color config" or "texture but no
\* depth/stencil config" when it is to clear an attachment whose config is
\* gone.
PassPanics(t, pass) ==
    /\ pass # None
    /\ \/ pass[1].clear_color /\ current_color_config(t) = None
       \/ /\ pass[1].clear_depth \/ pass[1].clear_stencil
          /\ current_depth_stencil_config(t) = None

\* The LoadOp::Clear values of a pass on t: None where the pass loads.
ClearValues(t, pass) ==
    [ color   |-> IF pass # None /\ pass[1].clear_color
                  THEN Some(current_color_config(t)[1].clear_color) ELSE None,
      depth   |-> IF pass # None /\ pass[1].clear_depth
                  THEN Some(current_depth_stencil_config(t)[1].clear_depth) ELSE None,
      stencil |-> IF pass # None /\ pass[1].clear_stencil
                  THEN Some(current_depth_stencil_config(t)[1].clear_stencil)
                  ELSE None ]

NoClearValues == [color |-> None, depth |-> None, stencil |-> None]

\* A begin-pass call on t: the target after it, whether it aborted, the pass
\* returned and the values the pass clears with.
BeginPass(t, kind) ==
    LET r == BeginOn(t, kind)
        panicked == PassPanics(t, r[2])
    IN  [ target       |-> WithFlags(t, r[1]),
          panicked     |-> panicked,
          pass         |-> IF panicked THEN None ELSE r[2],
          clear_values |-> IF panicked THEN NoClearValues
                           ELSE ClearValues(t, r[2]) ]

\* ------------------------------------------------------- applying changes

\* Option::map over an option o.
MapOption(o, F(_)) == IF o = None THEN None ELSE Some(F(o[1]))

\* `if let Some(cfg) = self.scheduled_config.take() { self.current_config =
\* Some(cfg) }`
TakeScheduled(t) ==
    IF t.scheduled_config = None THEN t
    ELSE [t EXCEPT !.current_config = t.scheduled_config,
                   !.scheduled_config = None]

MultisampleOf(color_config) ==
    IF color_config = None THEN None ELSE Some(color_config[1].multisample_config)

Offscreen_changes_any(t) ==
    IF t.current_config = None THEN <<TRUE, TRUE, TRUE>>
    ELSE IF t.scheduled_config = None \/ t.scheduled_config = t.current_config
         THEN <<FALSE, FALSE, FALSE>>
    ELSE <<TRUE, TRUE, TRUE>>

\* OffscreenRenderTarget::changes: <<color, multisample, depth/stencil>>.
Offscreen_changes(t) ==
    IF t.current_config = None THEN <<TRUE, TRUE, TRUE>>
    ELSE IF t.scheduled_config = None THEN <<FALSE, FALSE, FALSE>>
    ELSE LET cur == t.current_config[1]
             new == t.scheduled_config[1]
         IN  IF cur.size # new.size THEN <<TRUE, TRUE, TRUE>>
             ELSE << cur.color_config # new.color_config,
                     MultisampleOf(cur.color_config) # MultisampleOf(new.color_config),
                     cur.depth_stencil_config # new.depth_stencil_config >>

\* SurfaceRenderTarget::changes
Surface_changes(t) ==
    IF t.current_config = None THEN <<TRUE, TRUE, TRUE>>
    ELSE IF t.scheduled_config = None THEN <<FALSE, FALSE, FALSE>>
    ELSE LET cur == t.current_config[1]
             new == t.scheduled_config[1]
         IN  << \/ cur.color_config # new.color_config
                \/ cur.present_mode # new.present_mode
                \/ cur.backup_present_mode # new.backup_present_mode,
                cur.color_config[1].multisample_config
                    # new.color_config[1].multisample_config,
                cur.depth_stencil_config # new.depth_stencil_config >>

\* The color format an offscreen target creates its textures with.
OffscreenFormat(c) ==
    IF c.format_override = None THEN "Rgba8UnormSrgb" ELSE c.format_override[1]

\* What an apply did besides changing the target: the textures it created
\* and how often it configured the surface.
Applied(t, result, created, configures, surface) ==
    [ target     |-> t,
      result     |-> result,
      created    |-> created,
      configures |-> configures,
      surface    |-> surface ]

\* The color branch of apply_changes on the target u, whose scheduled config
\* has been taken: the color texture is rebuilt from the current color
\* config, the multisampled texture only if multisample_changed and only
\* inside the map over the color config.
ApplyColor(u, multisample_changed) ==
    LET cc == current_color_config(u)
        mt == IF cc # None /\ multisample_changed
              THEN MapOption(cc[1].multisample_config,
                             LAMBDA n : Texture(size(u), OffscreenFormat(cc[1]), n))
              ELSE u.multisampled_texture
    IN  [u EXCEPT
           !.color_texture =
               MapOption(cc, LAMBDA c : Texture(size(u), OffscreenFormat(c), "1")),
           !.multisampled_texture = mt]

\* The depth/stencil branch of apply_changes.
ApplyDepthStencil(u) ==
    [u EXCEPT !.depth_stencil_texture =
        MapOption(current_depth_stencil_config(u),
                  LAMBDA c : Texture(size(u), c.format, "1"))]

\* OffscreenRenderTarget::apply_changes
apply_changes(t) ==
    LET ch == Offscreen_changes(t)
        u  == TakeScheduled(t)
        v  == IF ch[1] THEN ApplyColor(u, ch[2]) ELSE u
        w  == IF ch[3] THEN ApplyDepthStencil(v) ELSE v
        created ==
            {x \in {"color"} : ch[1] /\ w.color_texture # None}
            \cup {x \in {"multisample"} :
                    ch[1] /\ ch[2] /\ current_color_config(u) # None
                          /\ w.multisampled_texture # None}
            \cup {x \in {"depth_stencil"} : ch[3] /\ w.depth_stencil_texture # None}
    IN  IF NoConfig(t) THEN Applied(t, "panic", {}, 0, None)
        ELSE IF ch = <<FALSE, FALSE, FALSE>> THEN Applied(t, "Unchanged", {}, 0, None)
        ELSE Applied(w, "Applied", created, 0, None)

\* SurfaceConfiguration
SurfaceConfiguration(format, s, present_mode) ==
    [format |-> format, size |-> s, present_mode |-> present_mode]

NegotiatedPresentModeSubstituted(cfg, caps) ==
    IF \/ cfg.present_mode = "AutoVsync"
       \/ cfg.present_mode = "AutoNoVsync"
       \/ cfg.present_mode \in caps
    THEN Some(cfg.present_mode)
    ELSE IF cfg.backup_present_mode # None THEN cfg.backup_present_mode
    ELSE Some("Fifo")

\* The present mode update negotiates: the requested mode if it is automatic
\* or supported, else the backup mode, else the `.expect` aborts (None).
NegotiatedPresentMode(cfg, caps) ==
    IF \/ cfg.present_mode = "AutoVsync"
       \/ cfg.present_mode = "AutoNoVsync"
       \/ cfg.present_mode \in caps
    THEN Some(cfg.present_mode)
    ELSE cfg.backup_present_mode

\* The multisampled branch of update.
UpdateMultisampled(u, format) ==
    [u EXCEPT !.multisampled_texture =
        MapOption(u.current_config[1].color_config[1].multisample_config,
                  LAMBDA n : Texture(u.size, format, n))]

\* The depth/stencil branch of update.
UpdateDepthStencil(u) ==
    [u EXCEPT !.depth_stencil_texture =
        MapOption(u.current_config[1].depth_stencil_config,
                  LAMBDA c : Texture(u.size, c.format, "1"))]

ReconfiguresAlways(e) == TRUE

\* `if let SurfaceError::Lost | SurfaceError::Outdated = e`: the acquisition
\* errors after which update configures the surface again.
Reconfigures(e) == e \in {"Lost", "Outdated"}

\* SurfaceRenderTarget::update on the surface `surface` (its configuration,
\* None before the first configure), the frame acquisition ending in
\* `acquire`: "Ok" or a SurfaceError.
update(t, surface, acquire) ==
    IF t.preferred_format = None \/ t.surface_capabilities = None
    THEN Applied(t, "Ok", {}, 0, surface)
    ELSE IF NoConfig(t) THEN Applied(t, "panic", {}, 0, surface)
    ELSE
    LET ch   == Surface_changes(t)
        u    == TakeScheduled(t)
        cfg  == u.current_config[1]
        mode == NegotiatedPresentMode(cfg, t.surface_capabilities[1])
        format == IF cfg.color_config[1].format_override = None
                  THEN t.preferred_format[1]
                  ELSE cfg.color_config[1].format_override[1]
        surface_cfg == SurfaceConfiguration(format, t.size, mode[1])
        configure == ch[1] \/ t.resized
        remultisample == configure /\ (ch[2] \/ t.resized)
        v    == IF remultisample THEN UpdateMultisampled(u, format) ELSE u
        s1   == IF configure THEN Some(surface_cfg) ELSE surface
        made == {x \in {"multisample"} : remultisample /\ v.multisampled_texture # None}
    IN  IF mode = None THEN Applied(u, "panic", {}, 0, surface)
        ELSE IF acquire = "Ok"
        THEN LET frame == Texture(s1[1].size, s1[1].format, "1")
                 w == [v EXCEPT !.color_texture = Some(frame)]
                 redepth == ch[3] \/ t.resized
                 x == IF redepth THEN UpdateDepthStencil(w) ELSE w
             IN  Applied([x EXCEPT !.resized = FALSE], "Ok",
                         made \cup {"color"}
                              \cup {y \in {"depth_stencil"} :
                                      redepth /\ x.depth_stencil_texture # None},
                         IF configure THEN 1 ELSE 0, s1)
        ELSE LET again == Reconfigures(acquire)
             IN  Applied([v EXCEPT !.color_texture = None], acquire, made,
                         (IF configure THEN 1 ELSE 0) + (IF again THEN 1 ELSE 0),
                         IF again THEN Some(surface_cfg) ELSE s1)

\* ------------------------------------------------------------------ state

VARIABLES
    pc,                  \* "init", "idle", "running" or "panicked"
    operation_builders,  \* SequenceBuilder.operation_builders being filled
    next,                \* Assets<Sequence>.next
    assets,              \* Assets<Sequence>.assets: id -> Sequence
    queue,               \* the RunningSequenceQueue resource, if present
    world,               \* the render targets, by handle
    qi,                  \* run_sequences: position in the queue
    si,                  \* Sequence::run: operations already executed
    command_encoder,     \* the encoder of the current or last call
    encoders_created,    \* encoders created by the current or last call
    submits,             \* submissions made by the current or last call
    outcome,             \* how the last run_sequences call ended
    log,                 \* the steps executed by the current or last call
    finish_calls,        \* id -> how often each builder's finish() ran
    declared,            \* id -> the builder list the sequence was built from
    rt,                  \* the render target of the lifecycle model
    surface,             \* the configuration of its wgpu surface, if configured
    last,                \* the last call on rt and what it returned
    tick,                \* alternates with every call on rt
    windows,             \* window entity -> its components
    resources,           \* which of the ShouldDraw, ShouldExit resources exist
    exited,              \* event_loop.exit() was called
    redraw,              \* what the last Redraw pass did
    manager,             \* the RenderPipelineManager, if constructed
    provider_calls,      \* how often the resource provider was invoked
    returned,            \* the last call on the manager or the arena
    search,              \* binsearch: its arguments, its range and its result
    scope                \* asset_scope: the id and the asset it took out, if running

seqVars == <<operation_builders, next, assets, queue, declared>>

runVars == <<qi, si, command_encoder, encoders_created, submits, outcome, log>>

rtVars == <<rt, surface, last, tick>>

hostVars == <<windows, resources, exited, redraw>>

pipelineVars == <<manager, provider_calls>>

utilVars == <<search, scope>>

vars == <<pc, seqVars, world, runVars, finish_calls, rtVars, hostVars, pipelineVars, returned, utilVars>>

UnInitialized(bs) == [inner |-> "UnInitialized", builders |-> bs, operations |-> <<>>]

Ready(ops) == [inner |-> "Ready", builders |-> <<>>, operations |-> ops]

NoQueue == [present |-> FALSE, ids |-> <<>>]

RunningSequenceQueue(ids) == [present |-> TRUE, ids |-> ids]

\* A command encoder: "none", "recording" or "submitted", and its passes.
CommandEncoder(state, passes) == [state |-> state, passes |-> passes]

RECURSIVE SumLen(_, _)
SumLen(f, S) ==
    IF S = {} THEN 0
    ELSE LET x == CHOOSE y \in S : TRUE
         IN  Len(f[x]) + SumLen(f, S \ {x})

\* Builders added so far, to sequences and to the builder being filled.
BuildersAdded == Len(operation_builders) + SumLen(declared, DOMAIN declared)

SequencesInit ==
    /\ pc = "init"
    /\ operation_builders = <<>>
    /\ next = 0
    /\ assets = <<>>
    /\ declared = <<>>
    /\ queue = NoQueue
    /\ world = [h \in Handles |->
                  IF h = "A" THEN RenderTargetOf(TRUE, TRUE, FALSE)
                  ELSE RenderTargetOf(TRUE, FALSE, FALSE)]
    /\ qi = 0
    /\ si = 0
    /\ command_encoder = CommandEncoder("none", <<>>)
    /\ encoders_created = 0
    /\ submits = 0
    /\ outcome = "none"
    /\ log = <<>>
    /\ finish_calls = <<>>

\* The windows of the program: the main window, which add_resources spawns
\* with ImportantWindow and UpdatingWindow, and one the program opens itself.
Windows == {"main", "second"}

\* A window entity: its WindowComponent (`open`), the markers it carries,
\* its SurfaceRenderTarget component if it has one and the configuration of
\* its surface if it was configured.
Window(open, important, updating, target, surface_cfg) ==
    [ open |-> open, important |-> important, updating |-> updating,
      target |-> target, surface |-> surface_cfg ]

\* What `redraw` holds before the first Redraw pass.
NoRedraw ==
    [ window |-> "-", acquire |-> "-", result |-> "-", held |-> FALSE,
      drew |-> FALSE, presented |-> FALSE, requested |-> {},
      handler_requested |-> FALSE, exit |-> FALSE ]

\* The world after add_resources: the main window alone, no target yet.
HostNew ==
    /\ windows = [w \in Windows |->
                    IF w = "main" THEN Window(TRUE, TRUE, TRUE, None, None)
                    ELSE Window(FALSE, FALSE, FALSE, None, None)]
    /\ resources = {}
    /\ exited = FALSE
    /\ redraw = NoRedraw

\* What `returned` holds before any call: the operation, its argument and
\* the Option it returned, or that it aborted.
NoCall == [op |-> "-", arg |-> None, value |-> None, aborted |-> FALSE]

\* No RenderPipelineManager has been constructed.
PipelinesNew ==
    /\ manager = None
    /\ provider_calls = 0
    /\ returned = NoCall

\* What `search` holds while binsearch is not running.
NoSearch == [pc |-> "-"]

\* binsearch has not been called and no asset_scope is running.
UtilNew ==
    /\ search = NoSearch
    /\ scope = None

\* What `last` holds before any call: the target was constructed.
Constructed ==
    [ op |-> "new", result |-> "Ok", flags |-> <<FALSE, FALSE, FALSE, FALSE>>,
      pass |-> None, clear_values |-> NoClearValues, created |-> {},
      configures |-> 0 ]

Init ==
    /\ SequencesInit
    /\ HostNew
    /\ PipelinesNew
    /\ UtilNew
    /\ rt = OffscreenRenderTarget_new(
                OffscreenRenderTargetConfig("4x4", None, None))
    /\ surface = None
    /\ last = Constructed
    /\ tick = 0

\* ------------------------------------------------------ building sequences

\* SequenceBuilder::add
Add(b) ==
    /\ pc = "init"
    /\ BuildersAdded < MaxBuilders
    /\ operation_builders' = Append(operation_builders, b)
    /\ UNCHANGED <<pc, next, assets, queue, declared, world, runVars, finish_calls>>
    /\ UNCHANGED <<rtVars, hostVars, pipelineVars, returned, utilVars>>

\* SequenceBuilder::finish, with Assets::add; a new builder is started.  The
\* programs modelled finish builders that hold at least one operation.
FinishSequence ==
    /\ pc = "init"
    /\ next < MaxSeqs
    /\ operation_builders # <<>>
    /\ assets' = [id \in 0..next |->
                    IF id = next THEN UnInitialized(operation_builders) ELSE assets[id]]
    /\ declared' = [id \in 0..next |->
                    IF id = next THEN operation_builders ELSE declared[id]]
    /\ finish_calls' = [id \in 0..next |->
                    IF id = next THEN [i \in 1..Len(operation_builders) |-> 0]
                    ELSE finish_calls[id]]
    /\ next' = next + 1
    /\ operation_builders' = <<>>
    /\ UNCHANGED <<pc, queue, world, runVars>>
    /\ UNCHANGED <<rtVars, hostVars, pipelineVars, returned, utilVars>>

\* The Init schedule ends by inserting the RunningSequenceQueue resource;
\* the program queues every sequence it built.
InsertQueue(ids) ==
    /\ pc = "init"
    /\ operation_builders = <<>>
    /\ DOMAIN assets \subseteq Range(ids)
    /\ queue' = RunningSequenceQueue(ids)
    /\ pc' = "idle"
    /\ UNCHANGED <<operation_builders, next, assets, declared, world, runVars,
                   finish_calls>>
    /\ UNCHANGED <<rtVars, hostVars, pipelineVars, returned, utilVars>>

\* The Init schedule ends without a RunningSequenceQueue.
InitWithoutQueue ==
    /\ pc = "init"
    /\ operation_builders = <<>>
    /\ pc' = "idle"
    /\ UNCHANGED <<seqVars, world, runVars, finish_calls>>
    /\ UNCHANGED <<rtVars, hostVars, pipelineVars, returned, utilVars>>

\* ----------------------------------------------------------- run_sequences

\* Mutant of CurrentId: the queue is walked from its end.
CurrentIdReversed == queue.ids[Len(queue.ids) - qi + 1]

\* The sequence the run loop of run_sequences is at.
CurrentId == queue.ids[qi]

InSequence ==
    /\ pc = "running"
    /\ qi <= Len(queue.ids)
    /\ CurrentId \in DOMAIN assets

LogEntry(step, passes) ==
    [id |-> CurrentId, qi |-> qi, si |-> si + 1, step |-> step, passes |-> passes]

\* The position after `done` operations of the current sequence, whose
\* operations are ops: Sequence::run returns after the last one and the loop
\* of run_sequences moves to the next queue entry.
Advance(done, ops) ==
    IF done >= Len(ops)
    THEN qi' = qi + 1 /\ si' = 0
    ELSE qi' = qi /\ si' = done

\* run_sequences without a RunningSequenceQueue: the early return.
RunSequencesNoQueue ==
    /\ pc = "idle"
    /\ ~queue.present
    /\ command_encoder' = CommandEncoder("none", <<>>)
    /\ encoders_created' = 0
    /\ submits' = 0
    /\ log' = <<>>
    /\ outcome' = "no_queue"
    /\ UNCHANGED <<pc, seqVars, world, qi, si, finish_calls>>
    /\ UNCHANGED <<rtVars, hostVars, pipelineVars, returned, utilVars>>

\* run_sequences with a queue: the command encoder is created.
RunSequencesBegin ==
    /\ pc = "idle"
    /\ queue.present
    /\ command_encoder' = CommandEncoder("recording", <<>>)
    /\ encoders_created' = 1
    /\ submits' = 0
    /\ log' = <<>>
    /\ outcome' = "running"
    /\ qi' = 1
    /\ si' = 0
    /\ pc' = "running"
    /\ UNCHANGED <<seqVars, world, finish_calls>>
    /\ UNCHANGED <<rtVars, hostVars, pipelineVars, returned, utilVars>>

\* `.expect("sequence was added to queue, but does not exist")`
SequenceMissing ==
    /\ pc = "running"
    /\ qi <= Len(queue.ids)
    /\ CurrentId \notin DOMAIN assets
    /\ pc' = "panicked"
    /\ outcome' = "panicked"
    /\ UNCHANGED <<seqVars, world, qi, si, command_encoder, encoders_created,
                   submits, log, finish_calls>>
    /\ UNCHANGED <<rtVars, hostVars, pipelineVars, returned, utilVars>>

\* Mutant of InnerAfterCompile: the assignment to self.inner is missing.
InnerLeftUnInitialized(bs, ops) == UnInitialized(bs)

\* `self.inner = InnerSequence::Ready(operations)`
InnerAfterCompile(bs, ops) == Ready(ops)

\* Sequence::run on an uninitialized sequence: the compilation block.
CompileSequence ==
    /\ InSequence
    /\ assets[CurrentId].inner = "UnInitialized"
    /\ LET bs == assets[CurrentId].builders
       IN  \E order \in IterationOrders(PendingAfter(bs)) :
             /\ assets' = [assets EXCEPT ![CurrentId] =
                             InnerAfterCompile(bs, Compile(bs, order))]
             /\ finish_calls' = [finish_calls EXCEPT ![CurrentId] =
                                   [i \in DOMAIN @ |-> @[i] + 1]]
             /\ Advance(0, Compile(bs, order))
    /\ UNCHANGED <<pc, operation_builders, next, queue, declared, world,
                   command_encoder, encoders_created, submits, outcome, log>>
    /\ UNCHANGED <<rtVars, hostVars, pipelineVars, returned, utilVars>>

AtStep ==
    /\ InSequence
    /\ assets[CurrentId].inner = "Ready"
    /\ si < Len(assets[CurrentId].operations)

CurrentStep == assets[CurrentId].operations[si + 1]

\* The run loop at a SequenceOperation::ResolveNext.
StepResolveNext ==
    /\ AtStep
    /\ CurrentStep.t = "ResolveNext"
    /\ world' = RunResolveNext(CurrentStep.target, world)
    /\ log' = Append(log, LogEntry(CurrentStep, <<>>))
    /\ Advance(si + 1, assets[CurrentId].operations)
    /\ UNCHANGED <<pc, seqVars, command_encoder, encoders_created, submits,
                   outcome, finish_calls>>
    /\ UNCHANGED <<rtVars, hostVars, pipelineVars, returned, utilVars>>

\* The run loop at a SequenceOperation::Run.
StepRun ==
    /\ AtStep
    /\ CurrentStep.t = "Run"
    /\ LET r == RunOperation(CurrentStep.op, world)
       IN  /\ world' = r.world
           /\ command_encoder' = [command_encoder EXCEPT
                                    !.passes = @ \o r.passes]
           /\ log' = Append(log, LogEntry(CurrentStep, r.passes))
    /\ Advance(si + 1, assets[CurrentId].operations)
    /\ UNCHANGED <<pc, seqVars, encoders_created, submits, outcome, finish_calls>>
    /\ UNCHANGED <<rtVars, hostVars, pipelineVars, returned, utilVars>>

\* Mutant of Submit: the encoder is submitted when the loop reaches the last
\* queue entry, before that sequence has run.
SubmitBeforeLastSequence ==
    /\ pc = "running"
    /\ qi >= Len(queue.ids)
    /\ si = 0
    /\ submits' = submits + 1
    /\ command_encoder' = [command_encoder EXCEPT !.state = "submitted"]
    /\ outcome' = "submitted"
    /\ pc' = "idle"
    /\ UNCHANGED <<seqVars, world, qi, si, encoders_created, log, finish_calls>>
    /\ UNCHANGED <<rtVars, hostVars, pipelineVars, returned, utilVars>>

\* After the loop: the encoder is finished and submitted.
Submit ==
    /\ pc = "running"
    /\ qi > Len(queue.ids)
    /\ submits' = submits + 1
    /\ command_encoder' = [command_encoder EXCEPT !.state = "submitted"]
    /\ outcome' = "submitted"
    /\ pc' = "idle"
    /\ UNCHANGED <<seqVars, world, qi, si, encoders_created, log, finish_calls>>
    /\ UNCHANGED <<rtVars, hostVars, pipelineVars, returned, utilVars>>

Next ==
    \/ \E b \in Builders : Add(b)
    \/ FinishSequence
    \/ \E ids \in SeqsUpTo(0..(MaxSeqs - 1), MaxQueue) : InsertQueue(ids)
    \/ InitWithoutQueue
    \/ RunSequencesNoQueue
    \/ RunSequencesBegin
    \/ SequenceMissing
    \/ CompileSequence
    \/ StepResolveNext
    \/ StepRun
    \/ Submit

Spec == Init /\ [][Next]_vars

\* ------------------------------------------------- render target lifecycle

sequenceVars == <<pc, seqVars, world, runVars, finish_calls>>

\* The flags of a target: <<resolve, clear color, clear depth, clear stencil>>.
FlagsOf(t) == <<t.resolve_scheduled>> \o clearing(t)

\* A call on rt returned (or aborted: result "panic"); the record of it, with
\* the flags the target had at the call.
Called(op, t, result, pass, clear_values, created, configures) ==
    /\ rt' = t
    /\ last' = [ op |-> op, result |-> result, flags |-> FlagsOf(rt),
                 pass |-> pass, clear_values |-> clear_values,
                 created |-> created, configures |-> configures ]
    /\ UNCHANGED <<sequenceVars, hostVars, pipelineVars, returned, utilVars>>

\* The program is running: no call has aborted.
Alive == last.result # "panic"

\* A call that configures the target; a target gets MaxCalls of them.
Configuring ==
    /\ Alive
    /\ tick < MaxCalls
    /\ tick' = tick + 1

\* A call that schedules a flag or begins a pass.
Drawing ==
    /\ Alive
    /\ UNCHANGED tick

\* A call of a scheduling method, which goes through scheduled_config_mut.
Scheduled(op, t) ==
    /\ Configuring
    /\ UNCHANGED surface
    /\ IF NoConfig(rt)
       THEN Called(op, rt, "panic", None, NoClearValues, {}, 0)
       ELSE Called(op, t, "Ok", None, NoClearValues, {}, 0)

\* A configuring call that cannot abort and leaves the surface alone.
Plain(op, t) ==
    /\ Configuring
    /\ UNCHANGED surface
    /\ Called(op, t, "Ok", None, NoClearValues, {}, 0)

\* A call that sets one of the four flags.
Flag(op, t) ==
    /\ Drawing
    /\ UNCHANGED surface
    /\ Called(op, t, "Ok", None, NoClearValues, {}, 0)

Resize(s) == rt.kind = "Offscreen" /\ Scheduled("resize", resize(rt, s))

SetClearColor(c) == Scheduled("set_clear_color", set_clear_color(rt, c))

SetClearDepth(d) == Scheduled("set_clear_depth", set_clear_depth(rt, d))

SetClearStencil(s) == Scheduled("set_clear_stencil", set_clear_stencil(rt, s))

SetScheduledColorConfig(c) ==
    Scheduled("set_scheduled_color_config", set_scheduled_color_config(rt, c))

SetScheduledDepthStencilConfig(c) ==
    Scheduled("set_scheduled_depth_stencil_config",
              set_scheduled_depth_stencil_config(rt, c))

SetPresentMode(m) ==
    rt.kind = "Surface" /\ Scheduled("set_present_mode", set_present_mode(rt, m))

SetBackupPresentMode(m) ==
    /\ rt.kind = "Surface"
    /\ Scheduled("set_backup_present_mode", set_backup_present_mode(rt, m))

RemoveColor == rt.kind = "Offscreen" /\ Plain("remove_color", remove_color(rt))

RemoveDepthStencil == Plain("remove_depth_stencil", remove_depth_stencil(rt))

ScheduleClearColor == Flag("schedule_clear_color", schedule_clear_color(rt))

ScheduleClearDepth == Flag("schedule_clear_depth", schedule_clear_depth(rt))

ScheduleClearStencil == Flag("schedule_clear_stencil", schedule_clear_stencil(rt))

ScheduleResolve == Flag("schedule_resolve", schedule_resolve(rt))

\* begin_ending_pass, begin_resolving_pass or begin_non_resolving_pass.
Begin(kind) ==
    /\ Drawing
    /\ UNCHANGED surface
    /\ LET r == BeginPass(rt, kind)
       IN  Called(kind, r.target, IF r.panicked THEN "panic" ELSE "Ok",
                  r.pass, r.clear_values, {}, 0)

\* apply_offscreen_targets: OffscreenRenderTarget::apply_changes.
ApplyChanges ==
    /\ Configuring
    /\ rt.kind = "Offscreen"
    /\ UNCHANGED surface
    /\ LET r == apply_changes(rt)
       IN  Called("apply_changes", r.target, r.result, None, NoClearValues,
                  r.created, r.configures)

\* create_surface_targets: SurfaceRenderTarget::init and the first set_size.
SurfaceInit ==
    /\ rt.kind = "Surface"
    /\ rt.surface_capabilities = None
    /\ Plain("init", set_size(init(rt, PreferredFormat, SupportedPresentModes), "4x4"))

\* handle_events on WindowEvent::Resized.
SetSize(s) == rt.kind = "Surface" /\ Plain("set_size", set_size(rt, s))

\* handle_events on WindowEvent::RedrawRequested: SurfaceRenderTarget::update.
Update(acquire) ==
    /\ Configuring
    /\ rt.kind = "Surface"
    /\ LET r == update(rt, surface, acquire)
       IN  /\ Called("update", r.target, r.result, None, NoClearValues,
                     r.created, r.configures)
           /\ surface' = r.surface

\* present_surface_targets: SurfaceRenderTarget::present.
Present == rt.kind = "Surface" /\ Plain("present", present(rt))

\* The target with all four flags scheduled.
AllScheduled(t) ==
    schedule_resolve(schedule_clear_color(schedule_clear_depth(
        schedule_clear_stencil(t))))

\* A target after new(), with no flag or with every flag scheduled.
RenderTargetInit ==
    /\ SequencesInit
    /\ HostNew
    /\ PipelinesNew
    /\ UtilNew
    /\ \E t \in {OffscreenRenderTarget_new(c) : c \in OffscreenConfigs}
                \cup {SurfaceRenderTarget_new(c) : c \in SurfaceConfigs} :
           rt \in {t, AllScheduled(t)}
    /\ surface = None
    /\ last = Constructed
    /\ tick = 0

RenderTargetNext ==
    \/ \E s \in Sizes : Resize(s)
    \/ \E c \in ClearColors : SetClearColor(c)
    \/ \E d \in ClearDepths : SetClearDepth(d)
    \/ \E s \in ClearStencils : SetClearStencil(s)
    \/ \E c \in ScheduledColorConfigs : SetScheduledColorConfig(c)
    \/ \E c \in DepthStencilConfigs : SetScheduledDepthStencilConfig(c)
    \/ \E m \in PresentModes : SetPresentMode(m)
    \/ \E m \in BackupPresentModes : SetBackupPresentMode(m)
    \/ RemoveColor
    \/ RemoveDepthStencil
    \/ ApplyChanges
    \/ SurfaceInit
    \/ \E s \in Sizes : SetSize(s)
    \/ \E acquire \in {"Ok"} \cup SurfaceErrors : Update(acquire)
    \/ Present

RenderTargetSpec == RenderTargetInit /\ [][RenderTargetNext]_vars

\* ------------------------------------------------------------- drawing

\* An offscreen target after its first apply_changes.
OffscreenApplied(c) == apply_changes(OffscreenRenderTarget_new(c))

\* A multisampled offscreen target that was applied, had its clear color
\* set and its color removed, and was applied again.
OffscreenColorRemoved ==
    apply_changes(remove_color(set_clear_color(
        OffscreenApplied(OffscreenRenderTargetConfig(
            "4x4", Some(RenderTargetColorConfig(Some("4"), "BLACK", None)),
            None)).target, "RED")))

\* A surface target after create_surface_targets.
SurfaceCreated(c) ==
    set_size(init(SurfaceRenderTarget_new(c), PreferredFormat, SupportedPresentModes),
             "4x4")

\* A surface target after create_surface_targets and its first update.
SurfaceUpdated(c, acquire) == update(SurfaceCreated(c), None, acquire)

\* The targets that are drawn to: new ones, applied ones, updated ones with
\* and without a frame, and presented ones.
DrawnTargets ==
    {Applied(OffscreenRenderTarget_new(c), "Ok", {}, 0, None) : c \in OffscreenConfigs}
    \cup {OffscreenApplied(c) : c \in OffscreenConfigs}
    \cup {OffscreenColorRemoved}
    \cup {a \in {SurfaceUpdated(c, acquire) :
                   c \in SurfaceConfigs, acquire \in {"Ok", "Timeout"}} :
             a.result # "panic"}
    \cup {Applied(present(a.target), "Ok", {}, 0, a.surface) :
             a \in {b \in {SurfaceUpdated(c, "Ok") : c \in SurfaceConfigs} :
                      b.result # "panic"}}

DrawingInit ==
    /\ SequencesInit
    /\ HostNew
    /\ PipelinesNew
    /\ UtilNew
    /\ \E a \in DrawnTargets : rt = a.target /\ surface = a.surface
    /\ last = Constructed
    /\ tick = 0

DrawingNext ==
    \/ ScheduleClearColor
    \/ ScheduleClearDepth
    \/ ScheduleClearStencil
    \/ ScheduleResolve
    \/ \E kind \in PassKinds : Begin(kind)

DrawingSpec == DrawingInit /\ [][DrawingNext]_vars

\* ------------------------------------------------------- the redraw pass

\* SurfaceRenderTargetConfig::default()
DefaultSurfaceConfig ==
    SurfaceRenderTargetConfig(RenderTargetColorConfig(None, "BLACK", None), None,
                              "AutoVsync", None)

\* The events a Redraw pass finds in the EventBuffer: at most one
\* WindowEvent::Resized buffered since the last pass, then the RedrawRequested
\* that started the pass.
Resized(w, s) == [window |-> w, event |-> "Resized", size |-> s]

RedrawRequested(w) == [window |-> w, event |-> "RedrawRequested", size |-> "-"]

\* create_surface_targets: every window with a WindowComponent and without a
\* SurfaceRenderTarget gets one, made from the default config.
create_surface_targets(ws) ==
    [w \in Windows |->
        IF ws[w].open /\ ws[w].target = None
        THEN [ws[w] EXCEPT !.target = Some(SurfaceCreated(DefaultSurfaceConfig))]
        ELSE ws[w]]

\* What handle_events has done so far: the windows, the resources its
\* commands insert, whether it called request_redraw, and what update
\* returned.
Handled(ws, inserted, requested, result, held) ==
    [ windows |-> ws, inserted |-> inserted, requested |-> requested,
      result |-> result, held |-> held ]

\* `if important { commands.insert_resource(ShouldDraw) }`
ShouldDrawFor(important) == important

\* The body of handle_events' loop for one event, the frame acquisition of a
\* RedrawRequested ending in `acquire`.
handle_event(h, e, acquire) ==
    LET win == h.windows[e.window]
    IN  IF ~win.open \/ win.target = None THEN h
        ELSE IF e.event = "Resized"
        THEN [h EXCEPT !.windows[e.window].target = Some(set_size(win.target[1], e.size))]
        ELSE LET r == update(win.target[1], win.surface, acquire)
                 ws == [h.windows EXCEPT ![e.window].target = Some(r.target),
                                         ![e.window].surface = r.surface]
             IN  Handled(ws,
                         h.inserted
                           \cup {x \in {"ShouldExit"} : r.result = "OutOfMemory"}
                           \cup {x \in {"ShouldDraw"} : ShouldDrawFor(win.important)},
                         h.requested
                           \/ (r.result \in SurfaceErrors /\ r.result # "OutOfMemory"),
                         r.result,
                         win.target[1].color_texture # None)

\* handle_events over the events of the buffer.
RECURSIVE handle_events(_, _, _)
handle_events(h, events, acquire) ==
    IF events = <<>> THEN h
    ELSE handle_events(handle_event(h, Head(events), acquire), Tail(events), acquire)

\* present_surface_targets
present_surface_targets(ws) ==
    [w \in Windows |->
        IF ws[w].target = None THEN ws[w]
        ELSE [ws[w] EXCEPT !.target = Some(present(ws[w].target[1]))]]

\* request_redraws: the windows whose request_redraw it calls.
request_redraws(ws) == {w \in Windows : ws[w].open /\ ws[w].updating}

\* WinitApp::window_event on RedrawRequested for the window w: the buffer
\* becomes the EventBuffer resource, app.update() runs the Redraw schedule
\* (create_surface_targets, handle_events, draw if ShouldDraw exists, then
\* present_surface_targets and request_redraws if ShouldDraw exists), and the
\* event loop is told to exit if ShouldExit exists afterwards.  The commands
\* of a system are applied before the next system of the chain runs.
RedrawPass(buffered, w, acquire) ==
    /\ ~exited
    /\ windows[w].open
    /\ LET created == create_surface_targets(windows)
           h == handle_events(Handled(created, {}, FALSE, "-", FALSE),
                              buffered \o <<RedrawRequested(w)>>, acquire)
           res == resources \cup h.inserted
           draws == "ShouldDraw" \in res /\ h.result # "panic"
           leave == "ShouldExit" \in res \/ h.result = "panic"
       IN  /\ windows' = IF draws THEN present_surface_targets(h.windows)
                         ELSE h.windows
           /\ resources' = res
           /\ exited' = leave
           /\ redraw' = [ window |-> w, acquire |-> acquire, result |-> h.result,
                          held |-> h.held, drew |-> draws, presented |-> draws,
                          requested |-> {x \in {w} : h.requested}
                                          \cup (IF draws THEN request_redraws(h.windows)
                                                ELSE {}),
                          handler_requested |-> h.requested,
                          exit |-> leave ]
    /\ UNCHANGED <<sequenceVars, rtVars, pipelineVars, returned, utilVars>>

\* The program opens its second window: the entity it spawned has got its
\* WindowComponent (window_request_system, window_event, window_insert_system),
\* with the markers the program gave it.
OpenWindow(important, updating) ==
    /\ ~exited
    /\ ~windows["second"].open
    /\ windows' = [windows EXCEPT
                     !["second"] = Window(TRUE, important, updating, None, None)]
    /\ UNCHANGED <<resources, exited, redraw>>
    /\ UNCHANGED <<sequenceVars, rtVars, pipelineVars, returned, utilVars>>

\* The Resized events that may be waiting in the buffer.
Buffered ==
    {<<>>} \cup {<<Resized(w, s)>> : w \in Windows, s \in Sizes}

HostInit ==
    /\ SequencesInit
    /\ rt = OffscreenRenderTarget_new(
                OffscreenRenderTargetConfig("4x4", None, None))
    /\ surface = None
    /\ last = Constructed
    /\ tick = 0
    /\ HostNew
    /\ PipelinesNew
    /\ UtilNew

HostNext ==
    \/ \E buffered \in Buffered, w \in Windows,
          acquire \in {"Ok"} \cup SurfaceErrors : RedrawPass(buffered, w, acquire)
    \/ \E important \in BOOLEAN, updating \in BOOLEAN : OpenWindow(important, updating)

HostSpec == HostInit /\ [][HostNext]_vars

\* ------------------------------------------------------ pipeline manager

\* GenericRenderPipelineDescriptor, by the stages it has: `fragment` and
\* `depth_stencil` are Options of which only is_some matters here.
GenericRenderPipelineDescriptor(fragment, depth_stencil) ==
    [fragment |-> fragment, depth_stencil |-> depth_stencil]

Descriptors ==
    {GenericRenderPipelineDescriptor(f, d) : f \in BOOLEAN, d \in BOOLEAN}

\* PipelineParameters: the key of the cache.
PipelineParameters(color_format, depth_stencil_format, sample_count) ==
    [ color_format         |-> color_format,
      depth_stencil_format |-> depth_stencil_format,
      sample_count         |-> sample_count ]

\* The keys the program asks for directly.
Keys ==
    {PipelineParameters(c, d, "1") :
        c \in {None, Some(PreferredFormat)},
        d \in {None, Some("Depth24PlusStencil8")}}
    \cup {PipelineParameters(Some(PreferredFormat), None, "4")}

\* What a call on the manager gives: the manager afterwards, the Option it
\* returned, whether it aborted, and the provider invocations so far.
Got(m, value, aborted, calls) ==
    [manager |-> m, value |-> value, aborted |-> aborted, provider_calls |-> calls]

RenderPipelineManager_new_unchecked(desc) ==
    Some([desc |-> desc, instances |-> <<>>])

\* RenderPipelineManager::new: the manager, or None where it panics.
RenderPipelineManager_new(desc) ==
    IF ~desc.fragment /\ ~desc.depth_stencil THEN None
    ELSE Some([desc |-> desc, instances |-> <<>>])

\* RenderPipelineManager::has_depth_stencil
has_depth_stencil(m) == m.desc.depth_stencil

\* RenderPipelineManager::has_color
has_color(m) == m.desc.fragment

\* The three checks get starts with: it panics on a key that fails one.
Unsatisfiable(m, params) ==
    \/ params.color_format = None /\ params.depth_stencil_format = None
    \/ ~has_depth_stencil(m) /\ params.color_format = None
    \/ ~has_color(m) /\ params.depth_stencil_format = None

\* The RenderPipeline the closure of get creates, the `serial`-th of the
\* device: a depth/stencil state if the key has a depth/stencil format and
\* the descriptor the stage, a fragment state with one color target if the
\* key has a color format and the descriptor a fragment stage.
RenderPipeline(m, params, serial) ==
    [ depth_stencil |-> IF has_depth_stencil(m) THEN params.depth_stencil_format
                        ELSE None,
      fragment      |-> IF has_color(m) THEN params.color_format ELSE None,
      count         |-> params.sample_count,
      serial        |-> serial ]

Created_alone(m, params, calls) ==
    LET pipeline == RenderPipeline(m, params, calls + 1)
    IN  Got([m EXCEPT !.instances = (params :> pipeline)],
            Some(pipeline), FALSE, calls + 1)

\* The closure of get ran: the provider was asked to update and for the two
\* shader modules and the layout, and the new pipeline is in the cache.
Created(m, params, calls) ==
    LET pipeline == RenderPipeline(m, params, calls + 1)
    IN  Got([m EXCEPT !.instances = (params :> pipeline) @@ m.instances],
            Some(pipeline), FALSE, calls + 1)

RenderPipelineManager_get_uncached(m, params, calls) ==
    IF Unsatisfiable(m, params) THEN Got(m, None, TRUE, calls)
    ELSE Created(m, params, calls)

\* RenderPipelineManager::get: `instances.entry(params).or_insert_with(..)`
\* behind the three checks.
RenderPipelineManager_get(m, params, calls) ==
    IF Unsatisfiable(m, params) THEN Got(m, None, TRUE, calls)
    ELSE IF params \in DOMAIN m.instances
    THEN Got(m, Some(m.instances[params]), FALSE, calls)
    ELSE Created(m, params, calls)

\* RenderPipelineManager::try_get
try_get(m, params) ==
    IF params \in DOMAIN m.instances THEN Some(m.instances[params]) ELSE None

\* RenderTargetImpl::depth_stencil
depth_stencil(t) == t.depth_stencil_texture

\* RenderTarget::sample_count
sample_count(t) ==
    IF current_color_config(t) = None THEN "1"
    ELSE IF current_color_config(t)[1].multisample_config = None THEN "1"
    ELSE current_color_config(t)[1].multisample_config[1]

\* The key get_compatible derives from a target: the formats of its color
\* and depth/stencil textures and its sample count.
CompatibleParameters(t) ==
    PipelineParameters(MapOption(texture(t), LAMBDA x : x.format),
                       MapOption(depth_stencil(t), LAMBDA x : x.format),
                       sample_count(t))

get_compatible_unchecked(m, target, calls) ==
    IF target = None THEN Got(m, None, FALSE, calls)
    ELSE RenderPipelineManager_get(m, CompatibleParameters(target[1]), calls)

\* RenderPipelineManager::get_compatible on RenderTargetSource::get's
\* result `target`.
get_compatible(m, target, calls) ==
    IF target = None THEN Got(m, None, FALSE, calls)
    ELSE LET params == CompatibleParameters(target[1])
         IN  IF \/ params.color_format = None /\ params.depth_stencil_format = None
                \/ ~has_color(m) /\ params.depth_stencil_format = None
                \/ ~has_depth_stencil(m) /\ params.color_format = None
             THEN Got(m, None, FALSE, calls)
             ELSE RenderPipelineManager_get(m, params, calls)

\* A call on the manager ended as `g`.
ManagerCalled(op, arg, g) ==
    /\ ~returned.aborted
    /\ Cardinality(DOMAIN g.manager.instances) <= MaxPipelines
    /\ manager' = Some(g.manager)
    /\ provider_calls' = g.provider_calls
    /\ returned' = [op |-> op, arg |-> arg, value |-> g.value, aborted |-> g.aborted]
    /\ UNCHANGED <<sequenceVars, rtVars, hostVars, utilVars>>

ManagerNew(desc) ==
    /\ manager = None
    /\ ~returned.aborted
    /\ manager' = RenderPipelineManager_new(desc)
    /\ returned' = [op |-> "new", arg |-> Some(desc), value |-> None,
                    aborted |-> RenderPipelineManager_new(desc) = None]
    /\ UNCHANGED <<provider_calls, sequenceVars, rtVars, hostVars, utilVars>>

ManagerGet(params) ==
    /\ manager # None
    /\ ManagerCalled("get", Some(params),
                     RenderPipelineManager_get(manager[1], params, provider_calls))

ManagerTryGet(params) ==
    /\ manager # None
    /\ ManagerCalled("try_get", Some(params),
                     Got(manager[1], try_get(manager[1], params), FALSE, provider_calls))

\* The render target sources of the program: the entity that has the target
\* rt, and one that has no render target.
Sources == {Target, "missing"}

\* RenderTargetSource::get
RenderTargetSource_get(source) == IF source = Target THEN Some(rt) ELSE None

ManagerGetCompatible(source) ==
    /\ manager # None
    /\ ManagerCalled("get_compatible", MapOption(RenderTargetSource_get(source), CompatibleParameters),
                     get_compatible(manager[1], RenderTargetSource_get(source), provider_calls))

\* A surface target that got a depth/stencil config scheduled after its first
\* frame, then an update that failed with Timeout, then a successful one.
SurfaceDepthScheduled ==
    LET first  == SurfaceUpdated(DefaultSurfaceConfig, "Ok")
        edited == set_scheduled_depth_stencil_config(present(first.target),
                      RenderTargetDepthStencilConfig("1.0", "0", "Depth24PlusStencil8"))
        failed == update(edited, first.surface, "Timeout")
    IN  update(failed.target, failed.surface, "Ok")

\* The targets pipelines are asked for: the drawn ones, applied ones with a
\* change scheduled and not yet applied, and SurfaceDepthScheduled.
PipelineTargets ==
    DrawnTargets
    \cup {SurfaceDepthScheduled}
    \cup {Applied(set_scheduled_color_config(OffscreenApplied(c).target, x),
                  "Ok", {}, 0, None) : c \in OffscreenConfigs, x \in ColorConfigs}
    \cup {Applied(set_scheduled_depth_stencil_config(OffscreenApplied(c).target, x),
                  "Ok", {}, 0, None) : c \in OffscreenConfigs, x \in DepthStencilConfigs}

PipelineInit ==
    /\ SequencesInit
    /\ \E a \in PipelineTargets : rt = a.target /\ surface = a.surface
    /\ last = Constructed
    /\ tick = 0
    /\ HostNew
    /\ PipelinesNew
    /\ UtilNew

PipelineNext ==
    \/ \E desc \in Descriptors : ManagerNew(desc)
    \/ \E params \in Keys : ManagerGet(params)
    \/ \E params \in Keys : ManagerTryGet(params)
    \/ \E source \in Sources : ManagerGetCompatible(source)

PipelineSpec == PipelineInit /\ [][PipelineNext]_vars

\* ------------------------------------------------------------ asset arena

\* The assets the program stores.
AssetValues == {"a", "b"}

\* The AssetIds the program can hold: those add_empty has handed out.
AssetIds == 0 .. (next - 1)

\* What an accessor gives: the Option it returned, or that it aborted.
Fetched(value, aborted) == [value |-> value, aborted |-> aborted]

\* Assets::contains
contains(a, id) == id \in DOMAIN a

\* Assets::get
Assets_get(a, id) == IF id \in DOMAIN a THEN Some(a[id]) ELSE None

\* Assets::get_mut
Assets_get_mut(a, id) == IF id \in DOMAIN a THEN Some(a[id]) ELSE None

\* Assets::replace: the arena afterwards.
replace(a, id, asset) == (id :> asset) @@ a

\* Assets::remove: the arena afterwards.
remove(a, id) == [k \in DOMAIN a \ {id} |-> a[k]]

\* World::has_asset, the Assets<T> resource being there since init_assets.
has_asset(a, id) == contains(a, id)

\* World::get_asset
get_asset(a, id) == Assets_get(a, id)

\* World::get_asset_mut
get_asset_mut(a, id) ==
    IF has_asset(a, id) THEN Some(Assets_get_mut(a, id)[1]) ELSE None

asset_or_none(a, id) == Fetched(get_asset(a, id), FALSE)

\* World::asset: get_asset(..).unwrap()
asset(a, id) == Fetched(get_asset(a, id), get_asset(a, id) = None)

\* World::asset_mut: get_asset_mut(..).unwrap()
asset_mut(a, id) == Fetched(get_asset_mut(a, id), get_asset_mut(a, id) = None)

\* A call on the arena ended.
ArenaCalled(op, arg, value, aborted) ==
    /\ returned' = [op |-> op, arg |-> arg, value |-> value, aborted |-> aborted]
    /\ UNCHANGED <<pc, operation_builders, queue, declared, world, runVars,
                   finish_calls, rtVars, hostVars, pipelineVars, search>>

\* Assets::add_empty / World::add_empty_asset
AddEmpty ==
    /\ ~returned.aborted
    /\ next < MaxAssets
    /\ next' = next + 1
    /\ UNCHANGED <<assets, scope>>
    /\ ArenaCalled("add_empty", None, Some(next), FALSE)

\* Assets::add / World::add_asset
AddAsset(v) ==
    /\ ~returned.aborted
    /\ next < MaxAssets
    /\ next' = next + 1
    /\ assets' = replace(assets, next, v)
    /\ UNCHANGED scope
    /\ ArenaCalled("add", None, Some(next), FALSE)

\* Assets::replace / World::replace_asset
ReplaceAsset(id, v) ==
    /\ ~returned.aborted
    /\ assets' = replace(assets, id, v)
    /\ UNCHANGED <<next, scope>>
    /\ ArenaCalled("replace", Some(id), Assets_get(assets, id), FALSE)

\* Assets::remove / World::remove_asset
RemoveAsset(id) ==
    /\ ~returned.aborted
    /\ assets' = remove(assets, id)
    /\ UNCHANGED <<next, scope>>
    /\ ArenaCalled("remove", Some(id), Assets_get(assets, id), FALSE)

\* The accessors that return an Option.
Fallible == {"Assets::get", "Assets::get_mut", "get_asset", "get_asset_mut"}

\* The accessors that unwrap.
MustExist == {"asset", "asset_mut"}

\* What the accessor `op` gives for id on the arena a.
Access(op, a, id) ==
    CASE op = "Assets::get"     -> Fetched(Assets_get(a, id), FALSE)
      [] op = "Assets::get_mut" -> Fetched(Assets_get_mut(a, id), FALSE)
      [] op = "get_asset"       -> Fetched(get_asset(a, id), FALSE)
      [] op = "get_asset_mut"   -> Fetched(get_asset_mut(a, id), FALSE)
      [] op = "asset"           -> asset(a, id)
      [] op = "asset_mut"       -> asset_mut(a, id)

\* A call of an accessor.
AccessAsset(op, id) ==
    /\ ~returned.aborted
    /\ UNCHANGED <<next, assets, scope>>
    /\ ArenaCalled(op, Some(id), Access(op, assets, id).value,
                   Access(op, assets, id).aborted)

\* The asset World::asset_scope holds in its local while f runs.
Scoped(id, value) == [id |-> id, asset |-> value]

asset_scope_keeping(a, s) ==
    IF contains(a, s.id) THEN a ELSE replace(a, s.id, s.asset)

\* The end of World::asset_scope: `replace(asset_id, assset)`.
asset_scope_end(a, s) == replace(a, s.id, s.asset)

\* World::asset_scope up to the call of f: remove_asset, and return if there
\* was nothing to remove.
ScopeBegin(id) ==
    /\ ~returned.aborted
    /\ scope = None
    /\ UNCHANGED next
    /\ IF contains(assets, id)
       THEN /\ assets' = remove(assets, id)
            /\ scope' = Some(Scoped(id, assets[id]))
            /\ ArenaCalled("asset_scope: f", Some(id), None, FALSE)
       ELSE /\ UNCHANGED <<assets, scope>>
            /\ ArenaCalled("asset_scope", Some(id), None, FALSE)

\* f writes through its `&mut T`.  What f does with its `&mut World` are the
\* calls on the arena above, made while the scope is open.
ScopeMutate(v) ==
    /\ ~returned.aborted
    /\ scope # None
    /\ scope' = Some(Scoped(scope[1].id, v))
    /\ UNCHANGED <<next, assets>>
    /\ ArenaCalled("f", Some(scope[1].id), None, FALSE)

\* f returned: World::asset_scope puts the asset back and returns.
ScopeEnd ==
    /\ ~returned.aborted
    /\ scope # None
    /\ assets' = asset_scope_end(assets, scope[1])
    /\ scope' = None
    /\ UNCHANGED next
    /\ ArenaCalled("asset_scope", Some(scope[1].id), None, FALSE)

\* The arena after init_assets: Assets::new().
AssetsInit ==
    /\ SequencesInit
    /\ rt = OffscreenRenderTarget_new(
                OffscreenRenderTargetConfig("4x4", None, None))
    /\ surface = None
    /\ last = Constructed
    /\ tick = 0
    /\ HostNew
    /\ PipelinesNew
    /\ UtilNew

AssetsNext ==
    \/ AddEmpty
    \/ \E v \in AssetValues : AddAsset(v)
    \/ \E id \in AssetIds, v \in AssetValues : ReplaceAsset(id, v)
    \/ \E id \in AssetIds : RemoveAsset(id)
    \/ \E op \in Fallible \cup MustExist, id \in AssetIds : AccessAsset(op, id)
    \/ \E id \in AssetIds : ScopeBegin(id)
    \/ \E v \in AssetValues : ScopeMutate(v)
    \/ ScopeEnd

AssetsSpec == AssetsInit /\ [][AssetsNext]_vars

\* --------------------------------------------------------------- binsearch

\* The i32 of the model: IntBits wide, two's complement.
MinInt == -(2 ^ (IntBits - 1))

MaxInt == 2 ^ (IntBits - 1) - 1

Int32 == MinInt .. MaxInt

\* Wrapping addition, as a release build computes `+`.
WrappingAdd(x, y) == ((x + y - MinInt) % (2 ^ IntBits)) + MinInt

\* `/ 2` on i32: the quotient is truncated towards zero.
Half(x) == IF x >= 0 THEN x \div 2 ELSE -((-x) \div 2)

\* The monotone f of a search: Err below `threshold`, Ok from it on; the
\* result tells which value f was evaluated at.
Probe(threshold, x) == [ok |-> x >= threshold, at |-> x]

\* binsearch(f, lo .. hi) was called, f having the threshold `threshold`.
Searching(lo, hi, threshold) ==
    [ pc |-> "called", lo |-> lo, hi |-> hi, threshold |-> threshold,
      start |-> lo, end |-> hi, res |-> None, evaluated |-> {} ]

\* A step of binsearch leaves everything else alone.
SearchStep == UNCHANGED <<sequenceVars, rtVars, hostVars, pipelineVars, returned, scope>>

\* binsearch up to its loop: it panics on an empty range.
BinsearchEnter ==
    /\ search.pc = "called"
    /\ search' = [search EXCEPT !.pc = IF search.start >= search.end THEN "panic"
                                       ELSE "loop"]
    /\ SearchStep

\* One iteration of the loop, the build being one with overflow checks
\* (`checked`: an overflowing start + end panics) or without (it wraps).
BinsearchIterate(checked) ==
    /\ search.pc = "loop"
    /\ search.start < search.end
    /\ LET sum == search.start + search.end
           mid == Half(WrappingAdd(search.start, search.end))
           r   == Probe(search.threshold, mid)
       IN  IF checked /\ sum \notin Int32
           THEN search' = [search EXCEPT !.pc = "panic"]
           ELSE search' = [search EXCEPT
                             !.res = Some(r),
                             !.evaluated = @ \cup {mid},
                             !.end = IF r.ok THEN mid ELSE @,
                             !.start = IF r.ok THEN @
                                       ELSE WrappingAdd(mid, 1)]
    /\ SearchStep

\* The loop is left and res.unwrap() returned.
BinsearchReturn ==
    /\ search.pc = "loop"
    /\ search.start >= search.end
    /\ search' = [search EXCEPT !.pc = "done"]
    /\ SearchStep

BinsearchInit ==
    /\ SequencesInit
    /\ rt = OffscreenRenderTarget_new(
                OffscreenRenderTargetConfig("4x4", None, None))
    /\ surface = None
    /\ last = Constructed
    /\ tick = 0
    /\ HostNew
    /\ PipelinesNew
    /\ scope = None
    /\ \E lo \in Int32, hi \in Int32, threshold \in Int32 \cup {MaxInt + 1} :
          search = Searching(lo, hi, threshold)

BinsearchNext ==
    \/ BinsearchEnter
    \/ \E checked \in BOOLEAN : BinsearchIterate(checked)
    \/ BinsearchReturn

BinsearchSpec == BinsearchInit /\ [][BinsearchNext]_vars

\* ------------------------------------------------- properties: compilation

ReadySeqs == {id \in DOMAIN assets : assets[id].inner = "Ready"}

IsRun(step) == step.t = "Run"

\* The position of the k-th Run step of ops: 0 for k = 0, Len(ops) + 1 if
\* ops has fewer than k Run steps.
RunPos(ops, k) ==
    IF k = 0 THEN 0
    ELSE IF \E i \in DOMAIN ops :
              IsRun(ops[i]) /\ Cardinality({j \in 1..i : IsRun(ops[j])}) = k
         THEN CHOOSE i \in DOMAIN ops :
              IsRun(ops[i]) /\ Cardinality({j \in 1..i : IsRun(ops[j])}) = k
         ELSE Len(ops) + 1

\* The positions strictly between the Run step of builder k - 1 and the Run
\* step of builder k.
Segment(ops, k) == (RunPos(ops, k - 1) + 1)..(RunPos(ops, k) - 1)

\* The positions after the last of n Run steps.
Trailing(ops, n) == (RunPos(ops, n) + 1)..Len(ops)

ResolvesIn(ops, P, h) == Cardinality({i \in P : ops[i] = ResolveNext(h)})

Reads(bs, k) == Range(reading(bs[k]))

Writes(bs, k) == Range(writing(bs[k]))

\* The handles with an outstanding write when builder k is processed (k =
\* Len(bs) + 1: when compilation ends): written by an earlier builder and
\* read by no builder after that one and before k.
Pending(bs, k) ==
    {h \in Handles :
        \E j \in 1..(k - 1) :
            /\ h \in Writes(bs, j)
            /\ \A i \in (j + 1)..(k - 1) : h \notin Reads(bs, i)}

\* C1: every handle a builder reads while it is pending gets exactly one
\* ResolveNext between the previous builder's Run step and this builder's,
\* also when reading() names it twice, and is not pending afterwards: a read
\* handle that is not pending gets none.
C1_ReadAfterWriteResolvedOnce ==
    \A id \in ReadySeqs :
        LET bs == declared[id]
            ops == assets[id].operations
        IN  \A k \in 1..Len(bs) :
                \A h \in Reads(bs, k) :
                    ResolvesIn(ops, Segment(ops, k), h)
                        = IF h \in Pending(bs, k) THEN 1 ELSE 0

\* A compiled sequence in which a builder names a pending handle twice in
\* reading(), and a later builder reads it again.
C1_Witness ==
    \E id \in ReadySeqs :
        LET bs == declared[id]
        IN  /\ Len(bs) = 3
            /\ bs[2] = SampleTwice("A")
            /\ "A" \in Pending(bs, 2)
            /\ bs[3] = Sample("A")

\* C2: the plan ends, after its last Run step, with exactly one ResolveNext
\* for every handle still pending when compilation ends, and nothing else,
\* however often the handle was written.
C2_TrailingResolves ==
    \A id \in ReadySeqs :
        LET bs == declared[id]
            ops == assets[id].operations
            T == Trailing(ops, Len(bs))
        IN  /\ \A i \in T : ops[i].t = "ResolveNext"
            /\ {ops[i].target : i \in T} = Pending(bs, Len(bs) + 1)
            /\ \A h \in Pending(bs, Len(bs) + 1) : ResolvesIn(ops, T, h) = 1

\* A compiled sequence that wrote A twice with no read in between and has
\* A and B pending at its end.
C2_Witness ==
    \E id \in ReadySeqs :
        LET bs == declared[id]
        IN  /\ Len(bs) >= 2
            /\ "A" \in Writes(bs, Len(bs) - 1)
            /\ "A" \in Writes(bs, Len(bs))
            /\ Pending(bs, Len(bs) + 1) = {"A", "B"}

\* C5: the Run steps of the plan are the builders' operations, one each and
\* in builder order; every other step is a ResolveNext that the
\* read-after-write rule or the trailing rule requires; and Write(A),
\* Read(A), Write(A) compiles to Run, ResolveNext(A), Run, Run,
\* ResolveNext(A).
C5_PlanShape ==
    \A id \in ReadySeqs :
        LET bs == declared[id]
            ops == assets[id].operations
            n == Len(bs)
        IN  /\ Cardinality({i \in DOMAIN ops : IsRun(ops[i])}) = n
            /\ \A k \in 1..n : ops[RunPos(ops, k)] = Run(finish(bs[k]))
            /\ \A k \in 1..n : \A i \in Segment(ops, k) :
                   /\ ops[i].t = "ResolveNext"
                   /\ ops[i].target \in Reads(bs, k) \cap Pending(bs, k)
                   /\ ResolvesIn(ops, Segment(ops, k), ops[i].target) = 1
            /\ \A i \in Trailing(ops, n) :
                   /\ ops[i].t = "ResolveNext"
                   /\ ops[i].target \in Pending(bs, n + 1)
                   /\ ResolvesIn(ops, Trailing(ops, n), ops[i].target) = 1
            /\ bs = <<EmptyPass("A"), Sample("A"), EmptyPass("A")>>
                 => ops = << Run(EmptyPass("A")), ResolveNext("A"),
                             Run(Sample("A")), Run(EmptyPass("A")),
                             ResolveNext("A") >>

\* The sequence Write(A), Read(A), Write(A) has been compiled.
C5_Witness ==
    \E id \in ReadySeqs :
        /\ declared[id] = <<EmptyPass("A"), Sample("A"), EmptyPass("A")>>
        /\ Len(assets[id].operations) = 5

NeverWritten(bs) == {h \in Handles : \A k \in 1..Len(bs) : h \notin Writes(bs, k)}

\* C6: a handle that no builder of the sequence writes has no ResolveNext
\* step in the plan, however many builders read it.
C6_NeverWrittenNeverResolved ==
    \A id \in ReadySeqs :
        \A h \in NeverWritten(declared[id]) :
            \A i \in DOMAIN assets[id].operations :
                assets[id].operations[i] # ResolveNext(h)

\* A compiled sequence whose three builders all read A and never write it.
C6_Witness ==
    \E id \in ReadySeqs :
        LET bs == declared[id]
        IN  /\ Len(bs) = 3
            /\ "A" \in NeverWritten(bs)
            /\ \A k \in 1..3 : "A" \in Reads(bs, k)

\* C7 as claimed: two compilations of equal builder lists give identical step
\* lists, the order of the trailing ResolveNext steps included.
C7_Original_IdenticalPlans ==
    \A i, j \in ReadySeqs :
        declared[i] = declared[j] => assets[i].operations = assets[j].operations

\* C7 amended: two compilations of equal builder lists give step lists that
\* are identical up to and including the last Run step and end with the same
\* set of trailing ResolveNext steps, each once; only the order of the
\* trailing steps may differ.
C7_SamePlanUpToTrailingOrder ==
    \A i, j \in ReadySeqs :
        declared[i] = declared[j] =>
            LET a == assets[i].operations
                b == assets[j].operations
                n == Len(declared[i])
            IN  /\ Len(a) = Len(b)
                /\ RunPos(a, n) = RunPos(b, n)
                /\ SubSeq(a, 1, RunPos(a, n)) = SubSeq(b, 1, RunPos(b, n))
                /\ {a[x] : x \in Trailing(a, n)} = {b[x] : x \in Trailing(b, n)}

\* Two sequences built from the same builder list, with two handles pending
\* at the end, have both been compiled, and their trailing steps differ in
\* order.
C7_Witness ==
    \E i, j \in ReadySeqs :
        /\ i # j
        /\ declared[i] = declared[j]
        /\ Cardinality(Pending(declared[i], Len(declared[i]) + 1)) = 2
        /\ assets[i].operations # assets[j].operations

\* ----------------------------------------------------- properties: running

\* The targets whose passes render to a multisampled view.
MultisampledTargets ==
    {h \in Handles : world[h].color_view /\ world[h].multisampled_view}

\* Step k of the log ran an operation that declares writing h and drew to it.
WritesAt(k, h) ==
    /\ IsRun(log[k].step)
    /\ h \in Range(writing(log[k].step.op))
    /\ \E p \in Range(log[k].passes) : p.target = h

\* Step k of the log ran an operation that declares reading h.
ReadsAt(k, h) ==
    /\ IsRun(log[k].step)
    /\ h \in Range(reading(log[k].step.op))

\* Step k of the log began a resolving pass on h.
ResolvingPassAt(k, h) ==
    \E p \in Range(log[k].passes) : p.target = h /\ p.resolve_target

\* C3 as claimed: when an operation reading a multisampled target is invoked
\* after an operation of the same sequence run wrote it, a resolving pass on
\* the target has been begun by that write or after it, before the read.
C3_ResolvedBeforeRead ==
    \A k \in DOMAIN log :
        \A h \in MultisampledTargets :
            ReadsAt(k, h) =>
                \A j \in 1..(k - 1) :
                    (log[j].qi = log[k].qi /\ WritesAt(j, h)) =>
                        \E m \in j..(k - 1) :
                            log[m].qi = log[k].qi /\ ResolvingPassAt(m, h)

\* The last step of the log that drew to h, 0 if none did.
LastPassOn(h) ==
    LET K == {k \in DOMAIN log : \E p \in Range(log[k].passes) : p.target = h}
    IN  IF K = {} THEN 0 ELSE CHOOSE k \in K : \A x \in K : x <= k

\* C4 as claimed: when the last sequence has run and the encoder is about to
\* be submitted, every multisampled target written during the call has been
\* resolved by its last pass and no resolve is left scheduled on its flag.
C4_ResolvesFlushedAtEnd ==
    (pc = "running" /\ qi > Len(queue.ids)) =>
        \A h \in MultisampledTargets :
            LastPassOn(h) # 0 =>
                /\ ResolvingPassAt(LastPassOn(h), h)
                /\ ~world[h].resolve_scheduled

\* The steps of the log without the passes they recorded.
Executed == [k \in DOMAIN log |->
               [id |-> log[k].id, qi |-> log[k].qi, si |-> log[k].si,
                step |-> log[k].step]]

\* C8: each builder's finish() has run once if its sequence is compiled and
\* never otherwise; a compiled sequence never changes again, so it is never
\* recompiled and never uncompiled; and every step any run executes, the
\* compiling run included, is the step of the compiled list at its position.
C8_CompiledOnceAndReused ==
    /\ [](\A id \in DOMAIN assets :
             finish_calls[id] =
                 [i \in 1..Len(declared[id]) |->
                     IF assets[id].inner = "Ready" THEN 1 ELSE 0])
    /\ [][\A id \in DOMAIN assets :
             assets[id].inner = "Ready" => assets'[id] = assets[id]]_vars
    /\ [](\A k \in DOMAIN log :
             /\ assets[log[k].id].inner = "Ready"
             /\ log[k].si \in DOMAIN assets[log[k].id].operations
             /\ log[k].step = assets[log[k].id].operations[log[k].si])

\* One sequence has been run twice in a call, after an earlier call that
\* compiled it: the queue names it twice, the call is complete, and the
\* target's resolve flag was set when the call began, which only an earlier
\* run does.
C8_Witness ==
    /\ outcome = "submitted"
    /\ queue.ids = <<0, 0>>
    /\ Len(log) = 2 * Len(assets[0].operations)
    /\ \E k \in DOMAIN log :
           /\ log[k].qi = 1
           /\ log[k].si = 1
           /\ ResolvingPassAt(k, "A")

\* The compiled steps of sequence id: none if it is not compiled or missing.
Operations(id) == IF id \in DOMAIN assets THEN assets[id].operations ELSE <<>>

\* The steps run_sequences has executed at queue position q.
StepsRun(q) ==
    IF q < qi THEN Len(Operations(queue.ids[q]))
    ELSE IF q = qi THEN si
    ELSE 0

\* Step k of the compiled steps of sequence id, if it has that many.
StepOf(id, k) ==
    IF k \in DOMAIN Operations(id) THEN Operations(id)[k] ELSE Run(NoOperation)

RECURSIVE ExpectedLog(_)
ExpectedLog(q) ==
    IF q = 0 THEN <<>>
    ELSE ExpectedLog(q - 1) \o
         [k \in 1..StepsRun(q) |->
            [id |-> queue.ids[q], qi |-> q, si |-> k,
             step |-> StepOf(queue.ids[q], k)]]

\* C9: the steps executed so far by a call are, in this order, all steps of
\* the sequences at the queue positions already passed, each in compiled
\* order, followed by the first steps of the sequence at the current
\* position; a sequence named at two positions is run at both.
C9_QueueOrder ==
    Executed = ExpectedLog(IF qi > Len(queue.ids) THEN Len(queue.ids) ELSE qi)

\* A call over a queue of two different sequences is in the second one, and
\* the first one had more than one step.
C9_Witness ==
    /\ pc = "running"
    /\ Len(queue.ids) = 2
    /\ queue.ids[1] # queue.ids[2]
    /\ qi = 2
    /\ si >= 1
    /\ Len(assets[queue.ids[1]].operations) >= 2

RECURSIVE PassesOf(_)
PassesOf(l) == IF l = <<>> THEN <<>> ELSE Head(l).passes \o PassesOf(Tail(l))

RECURSIVE TotalSteps(_)
TotalSteps(ids) ==
    IF ids = <<>> THEN 0
    ELSE Len(Operations(Head(ids))) + TotalSteps(Tail(ids))

\* C10: a call with a queue creates one encoder, records the passes of every
\* step on it, does not submit while steps remain, and has submitted exactly
\* once when it returns, with every step of every queued sequence executed;
\* a call without a queue creates no encoder, records nothing and submits
\* nothing.
C10_OneEncoderOneSubmit ==
    /\ pc \in {"running", "panicked"} =>
           /\ encoders_created = 1
           /\ submits = 0
           /\ command_encoder = CommandEncoder("recording", PassesOf(log))
    /\ outcome = "submitted" =>
           /\ encoders_created = 1
           /\ submits = 1
           /\ command_encoder = CommandEncoder("submitted", PassesOf(log))
           /\ Len(log) = TotalSteps(queue.ids)
    /\ outcome = "no_queue" =>
           /\ encoders_created = 0
           /\ submits = 0
           /\ command_encoder = CommandEncoder("none", <<>>)
           /\ log = <<>>

\* A call over a queue of two sequences has returned with passes of both
\* sequences on the submitted encoder.
C10_Witness ==
    /\ outcome = "submitted"
    /\ Len(queue.ids) = 2
    /\ \E k \in DOMAIN log : log[k].qi = 1 /\ log[k].passes # <<>>
    /\ \E k \in DOMAIN log : log[k].qi = 2 /\ log[k].passes # <<>>

\* ------------------------------------------------------ properties: passes

\* The target can resolve: it has a color view and a multisampled view.
CanResolve(t) == texture_view(t) # None /\ multisampled_view(t) # None

\* The last call was a begin-pass call of one of the kinds and returned.
Began(kinds) == last.op \in kinds /\ last.result = "Ok"

\* C11: begin_ending_pass requests a resolving pass if and only if
\* resolve_scheduled was true at the call (on a target that can resolve the
\* pass has a resolve target exactly then), and resolve_scheduled is false
\* when it returns, also when no pass is returned.
C11_EndingPassResolvesIffScheduled ==
    Began({"ending"}) =>
        /\ ~rt.resolve_scheduled
        /\ last.pass # None =>
              last.pass[1].resolve_target = (last.flags[1] /\ CanResolve(rt))

C11_Witness ==
    /\ Began({"ending"})
    /\ last.flags[1]
    /\ last.pass # None
    /\ last.pass[1].resolve_target
    /\ ~rt.resolve_scheduled

\* C12: begin_resolving_pass always requests a resolving pass and
\* begin_non_resolving_pass never does, and both leave resolve_scheduled as
\* it was at the call, so a scheduled resolve stays pending.
C12_ResolvingAndNonResolvingKeepFlag ==
    Began({"resolving", "non_resolving"}) =>
        /\ rt.resolve_scheduled = last.flags[1]
        /\ last.pass # None =>
              last.pass[1].resolve_target =
                  (last.op = "resolving" /\ CanResolve(rt))

C12_Witness ==
    /\ Began({"resolving"})
    /\ last.flags[1]
    /\ last.pass # None
    /\ last.pass[1].resolve_target
    /\ rt.resolve_scheduled

\* C13: a pass of any kind clears color, depth and stencil exactly for the
\* clear flags that were set at the call (on the attachments it has), with the
\* clear value of the current config, and after the call all three clear
\* flags are false, also when no pass is returned.
C13_ClearsWhatWasScheduledOnce ==
    Began(PassKinds) =>
        /\ clearing(rt) = <<FALSE, FALSE, FALSE>>
        /\ last.pass # None =>
              /\ last.pass[1].clear_color = (last.pass[1].color /\ last.flags[2])
              /\ last.pass[1].clear_depth =
                     (last.pass[1].depth_stencil /\ last.flags[3])
              /\ last.pass[1].clear_stencil =
                     (last.pass[1].depth_stencil /\ last.flags[4])
              /\ (last.clear_values.color # None) = last.pass[1].clear_color
              /\ (last.clear_values.depth # None) = last.pass[1].clear_depth
              /\ (last.clear_values.stencil # None) = last.pass[1].clear_stencil

C13_Witness ==
    /\ Began(PassKinds)
    /\ last.flags[2] /\ ~last.flags[3] /\ last.flags[4]
    /\ last.pass # None
    /\ last.pass[1].clear_color
    /\ ~last.pass[1].clear_depth
    /\ last.pass[1].clear_stencil
    /\ clearing(rt) = <<FALSE, FALSE, FALSE>>

Edits ==
    {"resize", "set_clear_color", "set_clear_depth", "set_clear_stencil",
     "set_scheduled_color_config", "set_scheduled_depth_stencil_config"}

\* The option new equals the option cur except for the field F clears away.
SameExcept(new, cur, Without(_)) ==
    /\ (new = None) = (cur = None)
    /\ new # None => Without(new[1]) = Without(cur[1])

\* The config new equals the config cur except for the field edited by op.
EqualExceptEdited(op, new, cur) ==
    CASE op = "resize" -> [new EXCEPT !.size = cur.size] = cur
      [] op \in {"set_scheduled_color_config", "set_clear_color"} ->
            /\ [new EXCEPT !.color_config = cur.color_config] = cur
            /\ op = "set_clear_color" =>
                  SameExcept(new.color_config, cur.color_config,
                             LAMBDA c : [c EXCEPT !.clear_color = "-"])
      [] op = "set_clear_depth" ->
            /\ [new EXCEPT !.depth_stencil_config = cur.depth_stencil_config] = cur
            /\ SameExcept(new.depth_stencil_config, cur.depth_stencil_config,
                          LAMBDA c : [c EXCEPT !.clear_depth = "-"])
      [] op = "set_clear_stencil" ->
            /\ [new EXCEPT !.depth_stencil_config = cur.depth_stencil_config] = cur
            /\ SameExcept(new.depth_stencil_config, cur.depth_stencil_config,
                          LAMBDA c : [c EXCEPT !.clear_stencil = "-"])
      [] OTHER ->
            [new EXCEPT !.depth_stencil_config = cur.depth_stencil_config] = cur

\* C15: resize, set_clear_color/depth/stencil and set_scheduled_*_config
\* change only scheduled_config: current_config, the textures and the four
\* flags are unchanged, a pass begun before the next apply is the same pass
\* with the same (current) clear values, and when no edit was pending the new
\* scheduled_config equals current_config except for the edited field.
C15_EditsChangeOnlyScheduledConfig ==
    [][ last'.op \in Edits /\ last'.result = "Ok" =>
          /\ rt' = [rt EXCEPT !.scheduled_config = rt'.scheduled_config]
          /\ rt'.scheduled_config # None
          /\ \A kind \in PassKinds :
                /\ BeginPass(rt', kind).pass = BeginPass(rt, kind).pass
                /\ BeginPass(rt', kind).clear_values = BeginPass(rt, kind).clear_values
                /\ BeginPass(rt', kind).panicked = BeginPass(rt, kind).panicked
          /\ rt.scheduled_config = None =>
                EqualExceptEdited(last'.op, rt'.scheduled_config[1],
                                  rt.current_config[1]) ]_vars

C15_Witness ==
    /\ last.op = "set_clear_color"
    /\ rt.clear_color_scheduled
    /\ current_color_config(rt) # None
    /\ current_color_config(rt)[1].clear_color = "BLACK"
    /\ scheduled_color_config(rt) # None
    /\ scheduled_color_config(rt)[1].clear_color = "RED"
    /\ rt.scheduled_config[1] =
          [rt.current_config[1] EXCEPT !.color_config[1].clear_color = "RED"]
    /\ BeginPass(rt, "ending").clear_values.color = Some("BLACK")

\* ------------------------------------------- properties: applying changes

\* The config with its clear values blanked.
StripClears(cfg) ==
    [cfg EXCEPT
       !.color_config = MapOption(@, LAMBDA c : [c EXCEPT !.clear_color = "-"]),
       !.depth_stencil_config =
           MapOption(@, LAMBDA c : [c EXCEPT !.clear_depth = "-",
                                             !.clear_stencil = "-"])]

\* The target has a pending config that differs from the current one, and
\* only in clear color, clear depth or clear stencil.
ClearOnlyEdit(t) ==
    /\ t.current_config # None
    /\ t.scheduled_config # None
    /\ t.scheduled_config # t.current_config
    /\ StripClears(t.scheduled_config[1]) = StripClears(t.current_config[1])

\* The textures an apply created, the frame a surface acquires aside.
Recreated(t, created) ==
    IF t.kind = "Surface" THEN created \ {"color"} ELSE created

\* C16: applying a scheduled config that differs from the current one only
\* in clear color, clear depth or clear stencil (the surface not resized)
\* recreates none of the color, multisample and depth/stencil textures and
\* does not reconfigure the surface.
C16_ClearOnlyEditsRecreateNothing ==
    [][ /\ last'.op \in {"apply_changes", "update"}
        /\ last'.result \in {"Applied", "Unchanged", "Ok"}
        /\ ClearOnlyEdit(rt)
        /\ ~rt.resized
        => /\ Recreated(rt, last'.created) = {}
           /\ last'.configures = 0 ]_vars

\* The pending config of t differs from the current one in the clear color
\* and in nothing else; the current one has color and depth/stencil.
ClearColorEdit(t) ==
    /\ t.current_config # None
    /\ t.scheduled_config # None
    /\ t.scheduled_config # t.current_config
    /\ t.current_config[1].color_config # None
    /\ t.current_config[1].depth_stencil_config # None
    /\ t.scheduled_config[1].color_config # None
    /\ [t.scheduled_config[1] EXCEPT !.color_config[1].clear_color =
            t.current_config[1].color_config[1].clear_color] = t.current_config[1]

ExpectedTextures(cfg) ==
    [ color |->
        MapOption(cfg.color_config,
                  LAMBDA c : Texture(cfg.size, OffscreenFormat(c), "1")),
      multisample |->
        IF cfg.color_config = None THEN None
        ELSE MapOption(cfg.color_config[1].multisample_config,
                       LAMBDA n : Texture(cfg.size,
                                          OffscreenFormat(cfg.color_config[1]), n)),
      depth_stencil |->
        MapOption(cfg.depth_stencil_config,
                  LAMBDA c : Texture(cfg.size, c.format, "1")) ]

\* The textures of a target, by name.
TexturesOf(t) ==
    [ color         |-> t.color_texture,
      multisample   |-> t.multisampled_texture,
      depth_stencil |-> t.depth_stencil_texture ]

\* The change flags of a pending config against the current one, by name.
ChangeFlags(cur, new) ==
    [ color         |-> cur.color_config # new.color_config,
      multisample   |-> MultisampleOf(cur.color_config)
                            # MultisampleOf(new.color_config),
      depth_stencil |-> cur.depth_stencil_config # new.depth_stencil_config ]

Applies ==
    /\ last'.op \in {"apply_changes", "update"}
    /\ last'.result # "panic"
    /\ rt.kind = "Surface" =>
          rt.preferred_format # None /\ rt.surface_capabilities # None

PresentModeUnavailable(t) ==
    /\ t.kind = "Surface"
    /\ t.preferred_format # None
    /\ t.surface_capabilities # None
    /\ LET cfg == TakeScheduled(t).current_config[1]
       IN  /\ cfg.present_mode \notin
                 {"AutoVsync", "AutoNoVsync"} \cup t.surface_capabilities[1]
           /\ cfg.backup_present_mode = None

\* C20: SurfaceRenderTarget::update with a requested present mode that is
\* neither AutoVsync/AutoNoVsync nor supported, and with no backup mode,
\* aborts with "present mode not available, and backup not set": the call
\* does not return, and the surface is not configured with any mode.
C20_UnavailablePresentModeAborts ==
    [][ last'.op = "update" /\ PresentModeUnavailable(rt) =>
          /\ last'.result = "panic"
          /\ last'.configures = 0
          /\ surface' = surface ]_vars

C20_Witness ==
    /\ last.op = "update"
    /\ last.result = "panic"
    /\ last.configures = 0
    /\ rt.current_config # None
    /\ rt.current_config[1].present_mode = "Mailbox"
    /\ rt.current_config[1].backup_present_mode = None

\* C20 as stated: the failure is an error outcome returned to the caller of
\* update, and the surface is not configured with a substitute mode.
C20_Original_ReturnsError ==
    [][ last'.op = "update" /\ PresentModeUnavailable(rt) =>
          /\ last'.result \in SurfaceErrors \cup {"Err"}
          /\ last'.configures = 0
          /\ surface' = surface ]_vars

\* ------------------------------------------ properties: frame acquisition

\* The surface target has been initialised by create_surface_targets.
Initialised(t) ==
    t.kind = "Surface" /\ t.preferred_format # None /\ t.surface_capabilities # None

\* C21: when frame acquisition fails in SurfaceRenderTarget::update, update
\* returns that error to the caller, the target then holds no frame image
\* (texture() and texture_view() absent), and the surface is configured
\* again, after the configure the pending changes call for, if and only if
\* the error is Lost or Outdated.
C21_AcquisitionFailure ==
    [][ \A e \in SurfaceErrors :
          Update(e) /\ Initialised(rt) /\ last'.result # "panic" =>
            /\ last'.result = e
            /\ texture(rt') = None
            /\ texture_view(rt') = None
            /\ last'.configures =
                  (IF Surface_changes(rt)[1] \/ rt.resized THEN 1 ELSE 0)
                  + (IF e \in {"Lost", "Outdated"} THEN 1 ELSE 0)
            /\ e \in {"Lost", "Outdated"} => surface' # None ]_vars

C21_Witness ==
    /\ last.op = "update"
    /\ last.result = "Outdated"
    /\ last.configures = 1
    /\ rt.current_config # None
    /\ texture(rt) = None
    /\ texture_view(rt) = None
    /\ surface # None

\* ---------------------------------------------- properties: redraw handling

\* The last Redraw pass tried to acquire a frame and update returned e.
AcquisitionFailed(e) == redraw.result = e

\* C22: in the host's redraw handling, after an acquisition failure with
\* OutOfMemory the application is marked to exit, no redraw is requested and
\* no draw is issued, in that pass or any later one; after any other
\* acquisition failure a redraw is requested and the application is not
\* marked to exit.
C22_OutOfMemoryStopsDrawing ==
    /\ AcquisitionFailed("OutOfMemory") =>
         /\ "ShouldExit" \in resources
         /\ exited
         /\ ~redraw.handler_requested
         /\ ~redraw.drew
    /\ \A e \in SurfaceErrors \ {"OutOfMemory"} :
         AcquisitionFailed(e) =>
           /\ redraw.handler_requested
           /\ "ShouldExit" \notin resources

\* --------------------------------------------- properties: pipeline cache

\* The cache of the manager.
Instances == IF manager = None THEN <<>> ELSE manager[1].instances

\* The last call on the manager returned a pipeline.
ReturnedPipeline ==
    /\ returned.op \in {"get", "get_compatible"}
    /\ ~returned.aborted
    /\ returned.value # None

\* C23: RenderPipelineManager::get called twice with an identical key
\* returns the same cached pipeline instance and invokes the resource
\* provider only on the first call, also when calls with other keys came in
\* between: a get returns what the cache holds at its key afterwards, and a
\* get with a key that is in the cache returns that entry, changes nothing
\* and does not invoke the provider.
C23_SecondGetIsAHit ==
    [][ \A params \in Keys :
          ManagerGet(params) /\ ~returned'.aborted =>
            /\ returned'.value = Some(Instances'[params])
            /\ params \in DOMAIN Instances =>
                 /\ returned'.value = Some(Instances[params])
                 /\ provider_calls' = provider_calls
                 /\ manager' = manager
            /\ (returned.op = "get" /\ returned.arg = Some(params)) =>
                 /\ returned'.value = returned.value
                 /\ provider_calls' = provider_calls ]_vars

\* A get hit the first pipeline after a second one had been created.
C23_Witness ==
    /\ returned.op = "get"
    /\ returned.value # None
    /\ returned.value[1].serial = 1
    /\ provider_calls >= 2

\* C24: RenderPipelineManager::get with a key that has a color format, with
\* or without a depth/stencil format, on a descriptor with no fragment stage
\* fails with a configuration error and inserts no cache entry.
C24_ColorWithoutFragmentStageFails ==
    [][ \A params \in Keys :
          ManagerGet(params) /\ params.color_format # None
                             /\ ~has_color(manager[1]) =>
            /\ returned'.aborted
            /\ manager' = manager ]_vars

\* C25: RenderPipelineManager::get reports a key the descriptor cannot
\* satisfy as an explicit, recoverable error value at the call site: the
\* call returns, the program goes on, the cache is unchanged and the
\* provider was not invoked.
C25_UnsatisfiableKeyIsAnErrorValue ==
    [][ \A params \in Keys :
          ManagerGet(params) /\ Unsatisfiable(manager[1], params) =>
            /\ ~returned'.aborted
            /\ returned'.value = None
            /\ manager' = manager
            /\ provider_calls' = provider_calls ]_vars

\* C26: RenderPipelineManager::new with a descriptor that has neither a
\* fragment stage nor a depth/stencil stage is an error and yields no
\* manager; with at least one of them it yields a manager with an empty
\* cache.
C26_NewNeedsAStage ==
    [][ \A desc \in Descriptors :
          ManagerNew(desc) =>
            IF ~desc.fragment /\ ~desc.depth_stencil
            THEN returned'.aborted /\ manager' = None
            ELSE /\ ~returned'.aborted
                 /\ manager' # None
                 /\ manager'[1].desc = desc
                 /\ DOMAIN manager'[1].instances = {} ]_vars

\* new was called with a descriptor that has no stage.
C26_Witness ==
    /\ returned.op = "new"
    /\ returned.arg = Some(GenericRenderPipelineDescriptor(FALSE, FALSE))
    /\ returned.aborted
    /\ manager = None

\* C27: after any sequence of get, try_get and get_compatible calls the
\* cache holds exactly one pipeline per distinct valid key passed to a
\* successful get, directly or through get_compatible: a key comes into the
\* cache only by such a call, with a pipeline of its own, and stays there
\* with that pipeline; try_get never inserts.
C27_CacheAppendOnly ==
    [][ /\ \A k \in DOMAIN Instances :
             k \in DOMAIN Instances' /\ Instances'[k] = Instances[k]
        /\ \A k \in DOMAIN Instances' \ DOMAIN Instances :
             /\ returned'.op \in {"get", "get_compatible"}
             /\ returned'.arg = Some(k)
             /\ ~Unsatisfiable(manager'[1], k)
             /\ \A j \in DOMAIN Instances : Instances[j].serial # Instances'[k].serial
        /\ returned'.op = "try_get" => manager' = manager
        /\ (returned'.op \in {"get", "get_compatible"} /\ ~returned'.aborted
               /\ returned'.value # None) =>
             /\ returned'.arg[1] \in DOMAIN Instances'
             /\ returned'.value = Some(Instances'[returned'.arg[1]])
        /\ provider_calls' = Cardinality(DOMAIN Instances') ]_vars

\* Three keys are cached, the last call was a try_get that missed.
C27_Witness ==
    /\ Cardinality(DOMAIN Instances) = 3
    /\ returned.op = "try_get"
    /\ returned.value = None

\* C28: RenderPipelineManager::get_compatible returns an absent result,
\* never an error or abort, and inserts nothing when the target does not
\* exist, has no attachment, or has attachments the descriptor's stages
\* cannot take; in every other case the key it passes to get satisfies get's
\* validation and a pipeline is returned.
C28_GetCompatibleAbsent ==
    [][ \A source \in Sources :
          ManagerGetCompatible(source) =>
            LET target == RenderTargetSource_get(source)
                absent == \/ target = None
                          \/ Unsatisfiable(manager[1], CompatibleParameters(target[1]))
            IN  /\ ~returned'.aborted
                /\ absent => /\ returned'.value = None
                             /\ manager' = manager
                             /\ provider_calls' = provider_calls
                /\ ~absent => /\ returned'.value # None
                              /\ returned'.arg # None
                              /\ ~Unsatisfiable(manager[1], returned'.arg[1]) ]_vars

\* get_compatible returned None for a target that has only a color texture,
\* from a manager whose descriptor has no fragment stage.
C28_Witness ==
    /\ returned.op = "get_compatible"
    /\ returned.value = None
    /\ returned.arg # None
    /\ returned.arg[1].color_format # None
    /\ returned.arg[1].depth_stencil_format = None
    /\ manager # None
    /\ ~has_color(manager[1])

\* C29: the key get_compatible derives reflects the target's current
\* configuration: color_format is present whenever the target has a current
\* color config, depth_stencil_format whenever it has a current
\* depth/stencil config, sample_count is the current sample count, and
\* changes that are scheduled but not applied do not affect the key.
C29_KeyReflectsCurrentConfig ==
    (returned.op = "get_compatible" /\ returned.arg # None) =>
        LET key == returned.arg[1]
        IN  /\ (key.color_format # None) = (current_color_config(rt) # None)
            /\ (key.depth_stencil_format # None)
                 = (current_depth_stencil_config(rt) # None)
            /\ key.sample_count = sample_count(rt)
            /\ key = CompatibleParameters([rt EXCEPT !.scheduled_config = None])

\* ------------------------------------------------ properties: asset arena

C31_ScheduledDepthStencilConfig ==
    (/\ last.op \in {"set_scheduled_depth_stencil_config", "set_clear_depth",
                     "set_clear_stencil"}
     /\ last.result = "Ok")
    => /\ rt.scheduled_config # None
       /\ scheduled_depth_stencil_config(rt)
            = rt.scheduled_config[1].depth_stencil_config

\* C32: after remove_color (resp. remove_depth_stencil) the next apply
\* leaves the target without a color (resp. depth/stencil) config and
\* texture, whether or not another change was pending when remove was
\* called.
C32_RemoveTakesEffectAtNextApply ==
    [][ Applies =>
          /\ last.op = "remove_color" =>
               current_color_config(rt') = None /\ texture(rt') = None
          /\ (last.op = "remove_depth_stencil" /\ last'.result \in {"Ok", "Applied", "Unchanged"}) =>
               /\ current_depth_stencil_config(rt') = None
               /\ rt'.depth_stencil_texture = None ]_vars

\* ------------------------------------------------- properties: binsearch

\* The values of the range searched.
Searched == search.lo .. (search.hi - 1)

\* C33: binsearch(f, range) on a non-empty range with a monotone f returns
\* f's Ok result for the lowest value of the range that gives Ok, or, if
\* every value of the range gives Err, the Err of the last value of the
\* range; it never evaluates f outside the range.
C33_BinsearchLowestOk ==
    (search.pc # "-" /\ Searched # {}) =>
        /\ search.evaluated \subseteq Searched
        /\ search.pc # "panic"
        /\ search.pc = "done" =>
             search.res =
               Some(IF \E x \in Searched : x >= search.threshold
                    THEN Probe(search.threshold,
                               CHOOSE x \in Searched :
                                 /\ x >= search.threshold
                                 /\ \A y \in Searched : y >= search.threshold => x <= y)
                    ELSE Probe(search.threshold, search.hi - 1))


\* ------------------------------------------- properties: texture contents

\* The color format of the current config of an applied target: the
\* format_override, else Rgba8UnormSrgb offscreen and the preferred format
\* of the surface.
CurrentColorFormat(t) ==
    LET c == t.current_config[1].color_config[1]
    IN  IF c.format_override # None THEN c.format_override[1]
        ELSE IF t.kind = "Surface" THEN t.preferred_format[1]
        ELSE "Rgba8UnormSrgb"

\* The last call was an apply that acted and came back without an error.
Applied_ok ==
    /\ last.op \in {"apply_changes", "update"}
    /\ last.result \in {"Applied", "Unchanged", "Ok"}
    /\ rt.current_config # None

\* C34: after apply_changes, or an update that returned Ok, a present
\* multisampled texture of a target with a current color config has the
\* format of that config and the current size; so a change of
\* format_override alone reallocates it with the new format.
C34_MultisampledTextureMatchesColorConfig ==
    ( /\ Applied_ok
      /\ rt.current_config[1].color_config # None
      /\ rt.multisampled_texture # None )
    => /\ rt.multisampled_texture[1].format = CurrentColorFormat(rt)
       /\ rt.multisampled_texture[1].size = size(rt)


\* What the current config of a surface target calls for as depth/stencil
\* texture: one of the config's format and the target's size, or none.
ExpectedDepthStencil(t) ==
    MapOption(t.current_config[1].depth_stencil_config,
              LAMBDA c : Texture(t.size, c.format, "1"))

\* C35: after an update of a surface target that returned Ok, the
\* depth/stencil texture is what the current config calls for (present iff
\* a depth/stencil config is current, with its format and the current size),
\* whatever updates came before, failed ones included.
C35_SurfaceDepthStencilMatchesConfig ==
    ( /\ rt.kind = "Surface"
      /\ last.op = "update"
      /\ last.result = "Ok"
      /\ rt.current_config # None )
    => rt.depth_stencil_texture = ExpectedDepthStencil(rt)


C38_NoAcquireWhileHoldingFrame ==
    (redraw.window # "-" /\ redraw.result = "Ok") => ~redraw.held


\* C39: the draw schedules and the presenting of surface targets run in a
\* Redraw pass if and only if the window that received RedrawRequested in
\* that pass is marked ImportantWindow; a pass started by a non-important
\* window draws nothing.
C39_DrawIffImportantRedraw ==
    redraw.window # "-" =>
        /\ redraw.drew <=> windows[redraw.window].important
        /\ redraw.presented <=> windows[redraw.window].important


\* -------------------------------------------------- properties: asset_scope

\* asset_scope returned at this step without having run f.
ScopeSkipped == scope = None /\ scope' = None /\ returned'.op = "asset_scope"

\* f is running before and after this step.
InScope == scope # None /\ scope' # None

\* asset_scope returns at this step after f ran.
ScopeReturns == scope # None /\ scope' = None

\* C40 as stated: asset_scope(id, f) on an id without asset does not run f
\* and leaves the arena unchanged; otherwise the arena has no asset at id as
\* long as f runs, fallible lookups of id inside f giving None, and when
\* asset_scope returns the arena holds at id the value as f mutated it, also
\* when f stored another value at id.
C40_AssetScope ==
    [][ /\ ScopeSkipped => assets' = assets
        /\ scope' # None => ~contains(assets', scope'[1].id)
        /\ ( /\ InScope
             /\ returned'.op \in Fallible
             /\ returned'.arg = Some(scope[1].id) ) => returned'.value = None
        /\ ScopeReturns =>
              Assets_get(assets', scope[1].id) = Some(scope[1].asset) ]_vars

\* C40, amended: asset_scope(id, f) on an id without asset does not run f
\* and leaves the arena unchanged; otherwise f starts with the asset taken
\* out of the arena, and the arena gets an asset at id while f runs only by
\* f's own replace on id (add never hands out id again); when asset_scope
\* returns the arena holds at id the value as f mutated it, in place of
\* whatever f stored there, and every other id is as f left it.
C40_AssetScopeTakesAndPutsBack ==
    [][ /\ ScopeSkipped =>
              /\ assets' = assets
              /\ ~contains(assets, returned'.arg[1])
        /\ (scope = None /\ scope' # None) =>
              /\ contains(assets, scope'[1].id)
              /\ scope'[1].asset = assets[scope'[1].id]
              /\ assets' = remove(assets, scope'[1].id)
        /\ ( /\ InScope
             /\ ~contains(assets, scope[1].id)
             /\ contains(assets', scope[1].id) ) =>
              /\ returned'.op = "replace"
              /\ returned'.arg = Some(scope[1].id)
        /\ ScopeReturns =>
              /\ Assets_get(assets', scope[1].id) = Some(scope[1].asset)
              /\ \A id \in AssetIds \ {scope[1].id} :
                    Assets_get(assets', id) = Assets_get(assets, id) ]_vars

\* asset_scope has returned after running f, and the asset is back.
C40_Witness ==
    /\ returned.op = "asset_scope"
    /\ scope = None
    /\ contains(assets, returned.arg[1])

====
